---- MODULE Spec2Model ----
(***************************************************************************)
(* State-machine model of gcmod's file-system table (FST) code:            *)
(*   - sections/fst/entry.rs : the 12-byte entry codec, DirectoryIter      *)
(*   - sections/fst/mod.rs   : FST::new (decode), FST::write, path lookup  *)
(*   - rom_rebuilder.rs      : FSTRebuilder (host tree -> FST + placement) *)
(*   - lib.rs                : align, parse_as_u64                         *)
(*   - game.rs, section.rs   : Game::rom_layout, ROMLayout::find_offset    *)
(*   - rom_rebuilder.rs      : ROMRebuilder::rebuild and ROMRebuilder::write *)
(*   - main.rs               : the extract and rebuild commands            *)
(* Strings are sequences of characters; a character is a one-character     *)
(* string, or the name of a code point outside ASCII ("U+00E9").           *)
(* Bytes are integers 0..255.  Option<usize> None is NoneIdx.              *)
(***************************************************************************)
EXTENDS Integers, Sequences, FiniteSets, TLC

VARIABLES
    phase,      \* position of the running command (see the actions)
    rebuilder,  \* FSTRebuilder { apploader_size, dol_size, config.alignment }
    rb_info,    \* FSTRebuilderInfo, the accumulator of the rebuild walk
    frames,     \* call stack of rebuild_dir_info activations
    decoder,    \* locals of FST::new while it reads records
    fst,        \* the FST value once constructed
    placement,  \* dol_offset / file_system_offset / space_used of a rebuild
    toc,        \* host file &&systemdata/Game.toc
    call,       \* the last query made on the FST and its result
    game,       \* the sections of an opened Game (header, apploader, dol, fst)
    rom,        \* ROMRebuilder { files, space_used } and the locals of write
    cli         \* the command being run, the output path, and the outcome

vars == <<phase, rebuilder, rb_info, frames, decoder, fst, placement, toc, call,
          game, rom, cli>>

(***************************************************************************)
(* Bounds of the model.                                                    *)
(***************************************************************************)
MaxEntries == 4     \* entries of a rebuilt tree, root included
MaxRecords == 4     \* records of a decoded table, root included

(***************************************************************************)
(* Program constants.                                                      *)
(***************************************************************************)
ENTRY_SIZE == 12
APPLOADER_OFFSET == 9280
GAME_HEADER_SIZE == 9280
DOL_HEADER_LEN == 256
ROM_SIZE == 1459978240
WRITE_CHUNK_SIZE == 1048576
DEFAULT_ALIGNMENT == 32768
MIN_ALIGNMENT == 4
NoneIdx == -1

Alignments == {4, 32}
ApploaderSizes == {5, 32}
DolSizes == {260}
FileSizes == {0, 3, 5}

SEP == "/"
NameA == <<"a">>
NameE == <<"U+00E9">>
NameHidden == <<".", "h">>
NameSystemData == <<"&", "&", "s", "y", "s", "t", "e", "m", "d", "a", "t", "a">>
HostNames == {NameA, NameE, NameHidden, NameSystemData}

(***************************************************************************)
(* Generic helpers.                                                        *)
(***************************************************************************)
Max(a, b) == IF a >= b THEN a ELSE b

Last(s) == s[Len(s)]

Front(s) == SubSeq(s, 1, Len(s) - 1)

RECURSIVE SumSeq(_)
SumSeq(s) == IF s = <<>> THEN 0 ELSE Head(s) + SumSeq(Tail(s))

Indices(es) == 0 .. (Len(es) - 1)

\* entries are indexed from 0 in the program
At(es, i) == es[i + 1]

(***************************************************************************)
(* UTF-8.                                                                  *)
(***************************************************************************)
AsciiCode(c) ==
    CASE c = "a" -> 97  [] c = "b" -> 98  [] c = "d" -> 100 [] c = "e" -> 101
      [] c = "h" -> 104 [] c = "m" -> 109 [] c = "s" -> 115 [] c = "t" -> 116
      [] c = "y" -> 121 [] c = "&" -> 38  [] c = "." -> 46  [] c = "/" -> 47

AsciiChars == {"a", "b", "d", "e", "h", "m", "s", "t", "y", "&", ".", "/"}

\* str::as_bytes of one character
Utf8(c) ==
    CASE c = "U+00E9" -> <<195, 169>>
      [] c = "U+FFFD" -> <<239, 191, 189>>
      [] OTHER -> <<AsciiCode(c)>>

\* String::as_bytes
RECURSIVE as_bytes(_)
as_bytes(s) == IF s = <<>> THEN <<>> ELSE Utf8(Head(s)) \o as_bytes(Tail(s))

\* String::from_utf8_lossy: valid sequences decode to their character, every
\* byte that starts no valid sequence is replaced by U+FFFD.
RECURSIVE from_utf8_lossy(_)
from_utf8_lossy(bytes) ==
    IF bytes = <<>> THEN <<>>
    ELSE LET b == Head(bytes) IN
         IF b < 128
         THEN <<CHOOSE c \in AsciiChars : AsciiCode(c) = b>>
                  \o from_utf8_lossy(Tail(bytes))
         ELSE IF Len(bytes) >= 2 /\ SubSeq(bytes, 1, 2) = <<195, 169>>
         THEN <<"U+00E9">> \o from_utf8_lossy(SubSeq(bytes, 3, Len(bytes)))
         ELSE IF Len(bytes) >= 3 /\ SubSeq(bytes, 1, 3) = <<239, 191, 189>>
         THEN <<"U+FFFD">> \o from_utf8_lossy(SubSeq(bytes, 4, Len(bytes)))
         ELSE <<"U+FFFD">> \o from_utf8_lossy(Tail(bytes))

(***************************************************************************)
(* std::path on Unix.                                                      *)
(***************************************************************************)
is_absolute(p) == Len(p) > 0 /\ p[1] = SEP

\* PathBuf::push
PathPush(p, c) ==
    IF is_absolute(c) THEN c
    ELSE IF Len(p) > 0 /\ Last(p) # SEP THEN p \o <<SEP>> \o c
    ELSE p \o c

\* the separator-delimited pieces of p, empty pieces included
RECURSIVE SplitSep(_, _)
SplitSep(p, cur) ==
    IF p = <<>> THEN <<cur>>
    ELSE IF Head(p) = SEP THEN <<cur>> \o SplitSep(Tail(p), <<>>)
    ELSE SplitSep(Tail(p), Append(cur, Head(p)))

\* Path::iter: the root directory, then the normal components; empty pieces
\* and "." pieces are dropped
Components(p) ==
    LET pieces == SplitSep(p, <<>>)
        keep == SelectSeq(pieces, LAMBDA x : x # <<>> /\ x # <<".">>)
    IN  IF is_absolute(p) THEN <<(<<SEP>>)>> \o keep ELSE keep

RECURSIVE JoinComponents(_, _)
JoinComponents(acc, cs) ==
    IF cs = <<>> THEN acc ELSE JoinComponents(PathPush(acc, Head(cs)), Tail(cs))

\* PathBuf::pop: truncate to the parent, no change when there is none
PathPop(p) ==
    LET cs == Components(p) IN
    IF cs = <<>> \/ cs = <<(<<SEP>>)>> THEN p
    ELSE JoinComponents(<<>>, Front(cs))

(***************************************************************************)
(* lib.rs                                                                  *)
(***************************************************************************)
\* align that rounds down to a multiple of m
align_down(n, m) == (n \div m) * m

align(n, m) ==
    LET extra == IF n % m = 0 THEN 0 ELSE 1
    IN  ((n \div m) + extra) * m

(***************************************************************************)
(* sections/fst/entry.rs: the Entry sum type.                              *)
(***************************************************************************)
EntryInfo(index, name, filename_offset, directory_index, full_path) ==
    [index |-> index, name |-> name, filename_offset |-> filename_offset,
     directory_index |-> directory_index, full_path |-> full_path]

FileEntry(info, file_offset, size) ==
    [kind |-> "File", info |-> info, file_offset |-> file_offset, size |-> size]

DirectoryEntry(info, parent_index, next_index, file_count) ==
    [kind |-> "Directory", info |-> info, parent_index |-> parent_index,
     next_index |-> next_index, file_count |-> file_count]

is_dir(e) == e.kind = "Directory"

is_file(e) == e.kind = "File"

(***************************************************************************)
(* sections/fst/entry.rs: the 12-byte record codec.                        *)
(***************************************************************************)
\* 256^n for the byte positions of a 32-bit field
Pow256(n) == IF n = 0 THEN 1 ELSE IF n = 1 THEN 256 ELSE IF n = 2 THEN 65536
             ELSE 16777216

\* byteorder ReadBytesExt::read_u24 / read_u32 with BigEndian
RECURSIVE read_be(_)
read_be(bytes) ==
    IF bytes = <<>> THEN 0
    ELSE Head(bytes) * Pow256(Len(bytes) - 1) + read_be(Tail(bytes))

\* u64::to_be_bytes: always eight bytes (the values of the model are below
\* 2^31, so the four high bytes are zero)
to_be_bytes(num) ==
    [i \in 1..8 |-> IF i <= 4 THEN 0
                    ELSE (num \div Pow256(8 - i)) % 256]

\* write_int_to_buffer(num, buf) with Len(buf) = buflen.  copy_from_slice
\* panics unless source and destination have the same length.
write_int_to_buffer(num, buflen) ==
    IF buflen # Len(to_be_bytes(num))
    THEN [panic |-> TRUE, bytes |-> <<>>]
    ELSE [panic |-> FALSE, bytes |-> to_be_bytes(num)]

\* Entry::new
EntryNew(entry, index, directory_index) ==
    LET filename_offset == read_be(SubSeq(entry, 2, 4))
        f2 == read_be(SubSeq(entry, 5, 8))
        f3 == read_be(SubSeq(entry, 9, 12))
        info == EntryInfo(index, <<>>, filename_offset, directory_index, <<>>)
    IN  CASE entry[1] = 0 ->
                [ok |-> TRUE, entry |-> FileEntry(info, f2, f3)]
          [] entry[1] = 1 ->
                [ok |-> TRUE, entry |-> DirectoryEntry(info, f2, f3, 0)]
          [] OTHER ->
                [ok |-> FALSE, entry |-> <<>>]

\* Entry::write: the bytes handed to output.write_all, or a panic
EntryWrite(e) ==
    LET tag == IF is_dir(e) THEN 1 ELSE 0
        f2 == IF is_file(e) THEN e.file_offset ELSE e.parent_index
        f3 == IF is_file(e) THEN e.size ELSE e.next_index
        w1 == write_int_to_buffer(e.info.filename_offset, 3)
        w2 == write_int_to_buffer(f2, 4)
        w3 == write_int_to_buffer(f3, 4)
    IN  IF w1.panic \/ w2.panic \/ w3.panic
        THEN [status |-> "panic", bytes |-> <<>>]
        ELSE [status |-> "ok",
              bytes |-> <<tag>> \o w1.bytes \o w2.bytes \o w3.bytes]

(***************************************************************************)
(* sections/fst/entry.rs: DirectoryIter.                                   *)
(* checks = TRUE is a build with overflow checks (usize subtraction        *)
(* panics), FALSE a build where it wraps modulo 2^64.                      *)
(***************************************************************************)
\* DirectoryIter::next that steps over a directory as over a file, without
\* skipping its subtree
IterNext_no_skip(es, dir, cur, checks) ==
    IF cur < dir.next_index
    THEN IF cur >= Len(es)
         THEN [kind |-> "panic", item |-> NoneIdx, cur |-> cur]
         ELSE [kind |-> "Some", item |-> cur, cur |-> cur + 1]
    ELSE [kind |-> "None", item |-> NoneIdx, cur |-> cur]

\* DirectoryIter::next from cursor cur
IterNext(es, dir, cur, checks) ==
    IF cur < dir.next_index
    THEN IF cur >= Len(es)
         THEN [kind |-> "panic", item |-> NoneIdx, cur |-> cur]
         ELSE LET res == At(es, cur) IN
              IF is_file(res)
              THEN [kind |-> "Some", item |-> cur, cur |-> cur + 1]
              ELSE IF res.next_index < cur /\ checks
              THEN [kind |-> "panic", item |-> NoneIdx, cur |-> cur]
              ELSE [kind |-> "Some", item |-> cur, cur |-> res.next_index]
    ELSE [kind |-> "None", item |-> NoneIdx, cur |-> cur]

\* the whole iteration: the indices yielded and how it ends
RECURSIVE IterRun(_, _, _, _, _)
IterRun(es, dir, cur, checks, fuel) ==
    LET n == IterNext(es, dir, cur, checks) IN
    IF n.kind = "None" THEN [status |-> "ok", items |-> <<>>]
    ELSE IF n.kind = "panic" THEN [status |-> "panic", items |-> <<>>]
    ELSE IF fuel = 0 THEN [status |-> "diverges", items |-> <<>>]
    ELSE LET r == IterRun(es, dir, n.cur, checks, fuel - 1)
         IN  [status |-> r.status, items |-> <<n.item>> \o r.items]

\* DirectoryEntry::iter_contents, run to its end
iter_contents(es, dir, checks) ==
    IterRun(es, dir, dir.info.index + 1, checks, Len(es) + 1)

(***************************************************************************)
(* sections/fst/mod.rs: path lookup.                                       *)
(***************************************************************************)
\* dir.iter_contents(..).find(|e| e.info().name == name), evaluated lazily
RECURSIVE FindChild(_, _, _, _, _, _)
FindChild(es, dir, cur, name, checks, fuel) ==
    LET n == IterNext(es, dir, cur, checks) IN
    IF n.kind = "None" THEN [status |-> "ok", entry |-> NoneIdx]
    ELSE IF n.kind = "panic" THEN [status |-> "panic", entry |-> NoneIdx]
    ELSE IF At(es, n.item).info.name = name
    THEN [status |-> "ok", entry |-> n.item]
    ELSE IF fuel = 0 THEN [status |-> "diverges", entry |-> NoneIdx]
    ELSE FindChild(es, dir, n.cur, name, checks, fuel - 1)

\* FST::entry_with_name: depth-first find_map over iter_contents
RECURSIVE entry_with_name(_, _, _, _, _, _)
entry_with_name(es, name, dir, cur, checks, fuel) ==
    LET n == IterNext(es, dir, cur, checks) IN
    IF n.kind = "None" THEN [status |-> "ok", entry |-> NoneIdx]
    ELSE IF n.kind = "panic" THEN [status |-> "panic", entry |-> NoneIdx]
    ELSE IF At(es, n.item).info.name = name
    THEN [status |-> "ok", entry |-> n.item]
    ELSE IF fuel = 0 THEN [status |-> "diverges", entry |-> NoneIdx]
    ELSE LET sub == IF is_dir(At(es, n.item))
                    THEN entry_with_name(es, name, At(es, n.item),
                                         n.item + 1, checks, fuel - 1)
                    ELSE [status |-> "ok", entry |-> NoneIdx]
         IN  IF sub.status # "ok" \/ sub.entry # NoneIdx THEN sub
             ELSE entry_with_name(es, name, dir, n.cur, checks, fuel - 1)

\* the try_fold over the components after the root
RECURSIVE DescendPath(_, _, _, _)
DescendPath(es, entry, names, checks) ==
    IF names = <<>> THEN [status |-> "ok", entry |-> entry]
    ELSE IF ~is_dir(At(es, entry)) THEN [status |-> "ok", entry |-> NoneIdx]
    ELSE LET r == FindChild(es, At(es, entry), entry + 1, Head(names),
                            checks, Len(es) + 1)
         IN  IF r.status # "ok" \/ r.entry = NoneIdx THEN r
             ELSE DescendPath(es, r.entry, Tail(names), checks)

\* a lookup that searches a relative path among the children of the root
\* only
entry_for_path_root_only(es, path, checks) ==
    IF ~is_absolute(path)
    THEN FindChild(es, At(es, 0), 1, path, checks, Len(es) + 1)
    ELSE DescendPath(es, 0, Tail(Components(path)), checks)

\* FST::entry_for_path
entry_for_path(es, path, checks) ==
    IF ~is_absolute(path)
    THEN entry_with_name(es, path, At(es, 0), 1, checks, Len(es) + 1)
    ELSE DescendPath(es, 0, Tail(Components(path)), checks)

\* FST::get_full_path: the names from the entry up to the root, collected
\* root first into a PathBuf
RECURSIVE AncestorNames(_, _, _)
AncestorNames(es, i, fuel) ==
    LET info == At(es, i).info IN
    IF info.directory_index = NoneIdx \/ fuel = 0 THEN <<info.name>>
    ELSE AncestorNames(es, info.directory_index, fuel - 1) \o <<info.name>>

get_full_path(es, i) == JoinComponents(<<>>, AncestorNames(es, i, Len(es)))

(***************************************************************************)
(* sections/fst/mod.rs: FST::write.                                        *)
(***************************************************************************)
\* the records, in index order; the first Entry::write that panics ends it
RECURSIVE WriteRecords(_)
WriteRecords(es) ==
    IF es = <<>> THEN [status |-> "ok", bytes |-> <<>>]
    ELSE LET w == EntryWrite(Head(es)) IN
         IF w.status # "ok" THEN w
         ELSE LET r == WriteRecords(Tail(es))
              IN  [status |-> r.status, bytes |-> w.bytes \o r.bytes]

\* BTreeMap<filename_offset, name>: a later insert replaces an earlier one
sorted_names(es) ==
    LET keys == {es[i].info.filename_offset : i \in 1..Len(es)}
        last(k) == CHOOSE i \in 1..Len(es) :
                      /\ es[i].info.filename_offset = k
                      /\ \A j \in 1..Len(es) :
                            es[j].info.filename_offset = k => j <= i
    IN  [k \in keys |-> es[last(k)].info.name]

\* the values of the map in ascending key order, each followed by a null
RECURSIVE WriteNames(_, _)
WriteNames(map, keys) ==
    IF keys = {} THEN <<>>
    ELSE LET k == CHOOSE x \in keys : \A y \in keys : x <= y
         IN  as_bytes(map[k]) \o <<0>> \o WriteNames(map, keys \ {k})

FSTWrite(es) ==
    LET r == WriteRecords(es) IN
    IF r.status # "ok" THEN r
    ELSE LET m == sorted_names(es)
         IN  [status |-> "ok", bytes |-> r.bytes \o WriteNames(m, DOMAIN m)]

(***************************************************************************)
(* rom_rebuilder.rs: FSTRebuilder.                                         *)
(***************************************************************************)
\* add_entry that counts every entry, directories included
add_entry_counts_all(rb, entry) ==
    [rb EXCEPT
        !.file_system_size =
            IF is_file(entry) THEN @ + align(entry.size, rb.alignment) ELSE @,
        !.file_count = @ + 1,
        !.entries = Append(@, entry)]

\* FSTRebuilderInfo::add_entry
add_entry(rb, entry) ==
    [rb EXCEPT
        !.file_system_size =
            IF is_file(entry) THEN @ + align(entry.size, rb.alignment) ELSE @,
        !.file_count = IF is_file(entry) THEN @ + 1 ELSE @,
        !.entries = Append(@, entry)]

\* FSTRebuilder::is_file_ignored
is_file_ignored(name) ==
    (Len(name) > 0 /\ name[1] = ".") \/ name = NameSystemData

\* rebuild_dir_info that counts the directory in its parent's file_count as
\* soon as it is pushed
rebuild_dir_info_enter_counted(rb, dir) ==
    LET rb1 == [rb EXCEPT !.current_path = PathPush(@, dir.info.name),
                          !.parent_index = dir.info.index]
        rb2 == add_entry(rb1, dir)
        rb3 == IF rb.parent_index = NoneIdx THEN rb2
               ELSE [rb2 EXCEPT !.entries[rb.parent_index + 1].file_count =
                                    @ + 1]
    IN  [rb |-> rb3,
         frame |-> [dir_index |-> dir.info.index,
                    old_parent_index |-> rb.parent_index,
                    previous_entry_count |-> Len(rb2.entries),
                    immediate_children_added |-> 0,
                    listed |-> {}]]

\* rebuild_dir_info up to the call of add_entries_in_directory: the
\* accumulator after the directory is pushed, and the activation record
rebuild_dir_info_enter(rb, dir) ==
    LET rb1 == [rb EXCEPT !.current_path = PathPush(@, dir.info.name),
                          !.parent_index = dir.info.index]
        rb2 == add_entry(rb1, dir)
    IN  [rb |-> rb2,
         frame |-> [dir_index |-> dir.info.index,
                    old_parent_index |-> rb.parent_index,
                    previous_entry_count |-> Len(rb2.entries),
                    immediate_children_added |-> 0,
                    listed |-> {}]]

\* the return of rebuild_dir_info without the restore of parent_index
rebuild_dir_info_exit_keep_parent(rb, frame) ==
    LET total_entries_added == Len(rb.entries) - frame.previous_entry_count
        d == frame.dir_index + 1
    IN  [rb EXCEPT
            !.current_path = PathPop(@),
            !.entries[d].file_count = frame.immediate_children_added,
            !.entries[d].next_index = frame.dir_index + total_entries_added + 1]

\* the return of rebuild_dir_info with next_index taken from the number of
\* immediate children
rebuild_dir_info_exit_flat(rb, frame) ==
    LET d == frame.dir_index + 1
    IN  [rb EXCEPT
            !.current_path = PathPop(@),
            !.parent_index = frame.old_parent_index,
            !.entries[d].file_count = frame.immediate_children_added,
            !.entries[d].next_index =
                frame.dir_index + frame.immediate_children_added + 1]

\* rebuild_dir_info after add_entries_in_directory returned
rebuild_dir_info_exit(rb, frame) ==
    LET total_entries_added == Len(rb.entries) - frame.previous_entry_count
        d == frame.dir_index + 1
    IN  [rb EXCEPT
            !.current_path = PathPop(@),
            !.parent_index = frame.old_parent_index,
            !.entries[d].file_count = frame.immediate_children_added,
            !.entries[d].next_index = frame.dir_index + total_entries_added + 1]

\* rebuild that places the executable at the start of the table, without
\* adding the size of the table
rebuild_layout_dol_at_table(rb, rbl) ==
    LET size == Len(rb.entries) * 12 + rb.filename_offset
        offset == align(APPLOADER_OFFSET + rbl.apploader_size, rbl.alignment)
        dol_offset == align(offset, rbl.alignment)
        file_system_offset == align(dol_offset + rbl.dol_size, rbl.alignment)
        shifted == [i \in 1..Len(rb.entries) |->
                       IF is_file(rb.entries[i])
                       THEN [rb.entries[i] EXCEPT
                                !.file_offset = @ + file_system_offset]
                       ELSE rb.entries[i]]
        eofs == {shifted[i].file_offset + shifted[i].size :
                    i \in {j \in 1..Len(shifted) : is_file(shifted[j])}}
        max_eof == IF eofs = {} THEN 0
                   ELSE CHOOSE m \in eofs : \A x \in eofs : x <= m
    IN  [fst |-> [offset |-> offset,
                  file_count |-> rb.file_count,
                  entries |-> shifted,
                  total_file_system_size |-> rb.file_system_size,
                  size |-> size],
         placement |-> [dol_offset |-> dol_offset,
                        file_system_offset |-> file_system_offset,
                        max_eof |-> max_eof]]

\* FSTRebuilder::rebuild after the walk: table size, section offsets, the
\* shift of every file offset, and the FST value
rebuild_layout(rb, rbl) ==
    LET size == Len(rb.entries) * 12 + rb.filename_offset
        offset == align(APPLOADER_OFFSET + rbl.apploader_size, rbl.alignment)
        dol_offset == align(offset + size, rbl.alignment)
        file_system_offset == align(dol_offset + rbl.dol_size, rbl.alignment)
        shifted == [i \in 1..Len(rb.entries) |->
                       IF is_file(rb.entries[i])
                       THEN [rb.entries[i] EXCEPT
                                !.file_offset = @ + file_system_offset]
                       ELSE rb.entries[i]]
        eofs == {shifted[i].file_offset + shifted[i].size :
                    i \in {j \in 1..Len(shifted) : is_file(shifted[j])}}
        max_eof == IF eofs = {} THEN 0
                   ELSE CHOOSE m \in eofs : \A x \in eofs : x <= m
    IN  [fst |-> [offset |-> offset,
                  file_count |-> rb.file_count,
                  entries |-> shifted,
                  total_file_system_size |-> rb.file_system_size,
                  size |-> size],
         placement |-> [dol_offset |-> dol_offset,
                        file_system_offset |-> file_system_offset,
                        max_eof |-> max_eof]]

NoFST == [offset |-> 0, file_count |-> 0, entries |-> <<>>,
          total_file_system_size |-> 0, size |-> 0]

NoRbInfo == [entries |-> <<>>, file_system_size |-> 0, filename_offset |-> 0,
             file_count |-> 0, parent_index |-> NoneIdx, current_path |-> <<>>,
             alignment |-> 0]

NoRebuilder == [apploader_size |-> 0, dol_size |-> 0, alignment |-> 0]

NoPlacement == [dol_offset |-> 0, file_system_offset |-> 0, max_eof |-> 0]

NoDecoder == [entries |-> <<>>, file_count |-> 0, total_file_system_size |-> 0,
              parents |-> <<>>, entry_count |-> 0, index |-> 0, offset |-> 0,
              entry_buffer |-> <<>>, strtab |-> <<>>]

NoCall == [op |-> "none"]

NoToc == [written |-> FALSE, bytes |-> <<>>, tree |-> <<>>]

NoGame == [sections |-> <<>>]

NoRom == [files |-> <<>>, i |-> 0, bytes_written |-> 0, emitted |-> 0,
          tail |-> 0, status |-> "none"]

NoCli == [cmd |-> "none"]

\* FSTRebuilder::new, then FSTRebuilder::rebuild up to the first read_dir:
\* the root entry is pushed by rebuild_dir_info
FSTRebuilder_new ==
    /\ phase = "start"
    /\ \E a \in Alignments, ap \in ApploaderSizes, dl \in DolSizes,
          present \in BOOLEAN :
          IF ~present
          THEN /\ phase' = "error"
               /\ UNCHANGED <<rebuilder, rb_info, frames>>
          ELSE LET root_entry ==
                       DirectoryEntry(
                           EntryInfo(0, <<SEP>>, 0, NoneIdx, <<SEP>>), 0, 0, 0)
                   rb0 == [NoRbInfo EXCEPT !.alignment = a]
                   r == rebuild_dir_info_enter(rb0, root_entry)
               IN  /\ rebuilder' = [apploader_size |-> ap, dol_size |-> dl,
                                    alignment |-> a]
                   /\ rb_info' = r.rb
                   /\ frames' = <<r.frame>>
                   /\ phase' = "walk"
    /\ call' = NoCall
    /\ UNCHANGED <<decoder, fst, placement, toc>>
    /\ UNCHANGED <<game, rom, cli>>

\* one iteration of the loop of add_entries_in_directory: read_dir yields a
\* host entry (a name not yet listed in this directory, its type, its size)
add_entries_in_directory ==
    /\ phase = "walk"
    /\ LET top == Last(frames) IN
       \E filename \in HostNames \ top.listed, dir \in BOOLEAN,
          len \in FileSizes :
          LET listed == [top EXCEPT !.listed = @ \cup {filename}]
              info == EntryInfo(Len(rb_info.entries), filename,
                                rb_info.filename_offset, rb_info.parent_index,
                                PathPush(rb_info.current_path, filename))
              rb1 == [rb_info EXCEPT !.filename_offset = @ + Len(filename) + 1]
          IN  IF is_file_ignored(filename)
              THEN /\ frames' = [frames EXCEPT ![Len(frames)] = listed]
                   /\ UNCHANGED rb_info
              ELSE /\ Len(rb_info.entries) < MaxEntries
                   /\ IF dir
                      THEN LET parent_index ==
                                   IF info.directory_index = NoneIdx THEN 0
                                   ELSE info.directory_index
                               r == rebuild_dir_info_enter(rb1,
                                        DirectoryEntry(info, parent_index, 0, 0))
                           IN  /\ rb_info' = r.rb
                               /\ frames' = Append(
                                      [frames EXCEPT ![Len(frames)] = listed],
                                      r.frame)
                      ELSE /\ rb_info' = add_entry(rb1,
                                  FileEntry(info, rb_info.file_system_size, len))
                           /\ frames' = [frames EXCEPT ![Len(frames)] =
                                  [listed EXCEPT
                                      !.immediate_children_added = @ + 1]]
    /\ UNCHANGED <<phase, rebuilder, decoder, fst, placement, toc, call>>
    /\ UNCHANGED <<game, rom, cli>>

\* read_dir is exhausted: add_entries_in_directory returns to
\* rebuild_dir_info, which patches the directory and returns; the return of
\* the root's rebuild_dir_info continues FSTRebuilder::rebuild up to the
\* construction of the FST value
rebuild_dir_info_return ==
    /\ phase = "walk"
    /\ LET top == Last(frames)
           rb1 == rebuild_dir_info_exit(rb_info, top)
       IN  IF Len(frames) > 1
           THEN /\ rb_info' = rb1
                /\ frames' = [Front(frames) EXCEPT ![Len(frames) - 1] =
                                 [@ EXCEPT !.immediate_children_added = @ + 1]]
                /\ UNCHANGED <<phase, fst, placement>>
           ELSE LET l == rebuild_layout(rb1, rebuilder) IN
                /\ rb_info' = rb1
                /\ frames' = <<>>
                /\ fst' = l.fst
                /\ placement' = l.placement
                /\ phase' = "built"
    /\ UNCHANGED <<rebuilder, decoder, toc, call>>
    /\ UNCHANGED <<game, rom, cli>>

\* FSTRebuilder::rebuild from fst.write(File::create(fst_path)) to its return
FSTRebuilder_write_toc ==
    /\ phase = "built"
    /\ LET w == FSTWrite(fst.entries) IN
       IF w.status = "ok"
       THEN /\ toc' = [written |-> TRUE, bytes |-> w.bytes,
                        tree |-> fst.entries]
            /\ phase' = "rebuilt"
            /\ UNCHANGED fst
       ELSE /\ phase' = "panic"
            /\ fst' = NoFST
            /\ UNCHANGED toc
    /\ call' = NoCall
    /\ UNCHANGED <<rebuilder, rb_info, frames, decoder, placement>>
    /\ UNCHANGED <<game, rom, cli>>

(***************************************************************************)
(* The contents of a table that FST::new may be given.  A table that was   *)
(* not written by this program is chosen record by record as it is read.   *)
(***************************************************************************)
\* n big-endian bytes of num
BigEndianBytes(num, n) == [i \in 1..n |-> (num \div Pow256(n - i)) % 256]

RecordBytes(tag, filename_offset, f2, f3) ==
    <<tag>> \o BigEndianBytes(filename_offset, 3) \o BigEndianBytes(f2, 4)
            \o BigEndianBytes(f3, 4)

NameOffsets == {0, 2}
RecordSizes == {3, 5}
NextIndexes == 0..5
\* the parent field and the ends of a directory inside the directory at 1
NestedParent == 1
NestedNextIndexes == {3, 4}
BadTag == 2

RootRecords ==
    {RecordBytes(1, 0, 0, n) : n \in NextIndexes}
        \cup {RecordBytes(0, 0, 0, 3), RecordBytes(BadTag, 0, 0, 1)}

TableRecords ==
    {RecordBytes(0, o, 0, s) : o \in NameOffsets, s \in RecordSizes}
        \cup {RecordBytes(1, o, 0, n) : o \in NameOffsets, n \in NextIndexes}
        \cup {RecordBytes(1, 0, NestedParent, n) : n \in NestedNextIndexes}
        \cup {RecordBytes(BadTag, 0, 0, 0)}

\* "a\0b\0", a name that is not UTF-8, and a table whose last name has no
\* terminator
StrTables == {<<97, 0, 98, 0>>, <<255, 0, 98, 0>>, <<97, 0, 98>>}

\* what read_exact can deliver for the record at position n (counted in
\* records); <<>> is a short read
ReadRecord(n, env) ==
    IF toc.written
    THEN IF Len(toc.bytes) >= (n + 1) * ENTRY_SIZE
         THEN {SubSeq(toc.bytes, n * ENTRY_SIZE + 1, (n + 1) * ENTRY_SIZE)}
         ELSE {<<>>}
    ELSE IF n < MaxRecords THEN env \cup {<<>>} ELSE {<<>>}

\* the bytes that follow the n records read
ReadStrTable(n) ==
    IF toc.written
    THEN {SubSeq(toc.bytes, n * ENTRY_SIZE + 1, Len(toc.bytes))}
    ELSE StrTables

(***************************************************************************)
(* sections/fst/mod.rs: FST::new.                                          *)
(***************************************************************************)
\* the while loop that pops the directories that ended before index
RECURSIVE PopParents(_, _, _)
PopParents(entries, parents, index) ==
    IF parents # <<>> /\ Last(parents).next = index
    THEN PopParents(
             [entries EXCEPT ![Last(parents).index + 1].file_count =
                                 Last(parents).count],
             Front(parents), index)
    ELSE [entries |-> entries, parents |-> parents]

\* BufRead::read_until(0) from position pos of the string table
read_until_null(strtab, pos) ==
    IF pos >= Len(strtab) THEN <<>>
    ELSE LET zeros == {i \in (pos + 1)..Len(strtab) : strtab[i] = 0}
             stop == IF zeros = {} THEN Len(strtab)
                     ELSE CHOOSE z \in zeros : \A y \in zeros : z <= y
         IN  SubSeq(strtab, pos + 1, stop)

\* Entry::read_filename: the entry with its name, and the stream position
\* (relative to the string table) after the call
read_filename(e, strtab, pos) ==
    IF e.info.index = 0
    THEN [entry |-> [e EXCEPT !.info.name = <<SEP>>], pos |-> pos]
    ELSE LET bytes == read_until_null(strtab, e.info.filename_offset)
             popped == IF bytes = <<>> THEN <<>> ELSE Front(bytes)
             name == from_utf8_lossy(popped)
         IN  [entry |-> [e EXCEPT !.info.name =
                            IF is_dir(e) THEN name \o <<SEP>> ELSE name],
              pos |-> e.info.filename_offset + Len(bytes)]

\* the loop over entries.iter_mut() that reads every name and tracks `end`
RECURSIVE ReadNames(_, _, _, _, _)
ReadNames(entries, i, strtab, pos, end) ==
    IF i > Len(entries) THEN [entries |-> entries, end |-> end]
    ELSE LET r == read_filename(entries[i], strtab, pos)
         IN  ReadNames([entries EXCEPT ![i] = r.entry], i + 1, strtab,
                       r.pos, Max(end, r.pos))

\* the last loop of FST::new: full_path of every entry
WithFullPaths(entries) ==
    [i \in 1..Len(entries) |->
        [entries[i] EXCEPT !.info.full_path = get_full_path(entries, i - 1)]]

\* FST::new from its start to the first iteration of the record loop
FST_new_root ==
    /\ phase \in {"start", "rebuilt"}
    /\ \E buf \in ReadRecord(0, RootRecords) :
          IF buf = <<>>
          THEN /\ phase' = "error"
               /\ decoder' = NoDecoder
          ELSE LET root == EntryNew(buf, 0, NoneIdx) IN
               IF ~root.ok \/ ~is_dir(root.entry)
               THEN /\ phase' = "panic"
                    /\ decoder' = [NoDecoder EXCEPT !.entry_buffer = buf]
               ELSE /\ phase' = "records"
                    /\ decoder' =
                          [entries |-> <<root.entry>>,
                           file_count |-> 0,
                           total_file_system_size |-> 0,
                           parents |-> <<[index |-> 0,
                                          next |-> root.entry.next_index,
                                          count |-> 0]>>,
                           entry_count |-> root.entry.next_index,
                           index |-> 1,
                           offset |-> 0,
                           entry_buffer |-> buf,
                           strtab |-> <<>>]
    /\ fst' = NoFST
    /\ call' = NoCall
    /\ UNCHANGED <<rebuilder, rb_info, frames, placement, toc>>
    /\ UNCHANGED <<game, rom, cli>>

\* one iteration of `for index in 1..entry_count`
FST_new_record ==
    /\ phase = "records"
    /\ decoder.index < decoder.entry_count
    /\ \E buf \in ReadRecord(decoder.index, TableRecords) :
          LET index == decoder.index
              p == PopParents(decoder.entries, decoder.parents, index)
              parents1 == IF p.parents = <<>> THEN p.parents
                          ELSE [p.parents EXCEPT ![Len(p.parents)].count = @ + 1]
              directory_index == IF parents1 = <<>> THEN NoneIdx
                                 ELSE Last(parents1).index
              new == EntryNew(buf, index, directory_index)
          IN  IF buf = <<>> \/ ~new.ok
              THEN /\ phase' = "error"
                   /\ decoder' = [NoDecoder EXCEPT !.entry_buffer = buf,
                                                   !.index = index]
              ELSE /\ phase' = "records"
                   /\ decoder' =
                         [decoder EXCEPT
                             !.entries = Append(p.entries, new.entry),
                             !.file_count =
                                 IF is_file(new.entry) THEN @ + 1 ELSE @,
                             !.total_file_system_size =
                                 IF is_file(new.entry) THEN @ + new.entry.size
                                 ELSE @,
                             !.parents =
                                 IF is_dir(new.entry)
                                 THEN Append(parents1,
                                          [index |-> index,
                                           next |-> new.entry.next_index,
                                           count |-> 0])
                                 ELSE parents1,
                             !.index = index + 1,
                             !.entry_buffer = buf]
    /\ UNCHANGED <<rebuilder, rb_info, frames, fst, placement, toc, call>>
    /\ UNCHANGED <<game, rom, cli>>

\* FST::new after the record loop: names, size, full paths, Ok(fst)
FST_new_names ==
    /\ phase = "records"
    /\ decoder.index >= decoder.entry_count
    /\ \E strtab \in ReadStrTable(Len(decoder.entries)) :
          LET str_tbl_addr == decoder.offset + Len(decoder.entries) * ENTRY_SIZE
              r == ReadNames(decoder.entries, 1, strtab, 0, 0)
              end == Max(0, str_tbl_addr + r.end)
          IN  /\ fst' = [offset |-> decoder.offset,
                          file_count |-> decoder.file_count,
                          entries |-> WithFullPaths(r.entries),
                          total_file_system_size |->
                              decoder.total_file_system_size,
                          size |-> end - decoder.offset]
              /\ decoder' = [decoder EXCEPT !.strtab = strtab]
    /\ phase' = "decoded"
    /\ UNCHANGED <<rebuilder, rb_info, frames, placement, toc, call>>
    /\ UNCHANGED <<game, rom, cli>>

(***************************************************************************)
(* Calls on a constructed FST, and calls of the record codec.              *)
(***************************************************************************)
HasFST == phase \in {"built", "rebuilt", "decoded"}

Directories(es) == {i \in Indices(es) : is_dir(At(es, i))}

Files(es) == {i \in Indices(es) : is_file(At(es, i))}

\* DirectoryEntry::iter_contents on every directory of the FST, each
\* iterated to its end
iter_contents_call ==
    /\ HasFST
    /\ call = NoCall
    /\ \E checks \in BOOLEAN :
          call' = [op |-> "iter_contents",
                   result |-> [dir \in Directories(fst.entries) |->
                                  iter_contents(fst.entries,
                                                At(fst.entries, dir), checks)]]
    /\ UNCHANGED <<phase, rebuilder, rb_info, frames, decoder, fst, placement,
                   toc>>
    /\ UNCHANGED <<game, rom, cli>>

\* FST::entry_for_path on the full_path of every entry of the FST
entry_for_path_call ==
    /\ HasFST
    /\ call = NoCall
    /\ \E checks \in BOOLEAN :
          call' = [op |-> "entry_for_path",
                   result |-> [e \in Indices(fst.entries) |->
                                  entry_for_path(fst.entries,
                                      At(fst.entries, e).info.full_path,
                                      checks)]]
    /\ UNCHANGED <<phase, rebuilder, rb_info, frames, decoder, fst, placement,
                   toc>>
    /\ UNCHANGED <<game, rom, cli>>

\* a name that no entry of the model carries
NameAbsent == <<"y">>

\* the relative paths looked up: every name of an entry below the root that
\* is a relative path, and one that is absent
QueryNames(es) ==
    {name \in {At(es, i).info.name : i \in Indices(es) \ {0}} :
        ~is_absolute(name)} \cup {NameAbsent}

\* FST::entry_for_path on a relative path, which entry_with_name treats as
\* one file name
entry_with_name_call ==
    /\ HasFST
    /\ call = NoCall
    /\ \E checks \in BOOLEAN :
          call' = [op |-> "entry_with_name",
                   result |-> [name \in QueryNames(fst.entries) |->
                                  entry_for_path(fst.entries, name, checks)]]
    /\ UNCHANGED <<phase, rebuilder, rb_info, frames, decoder, fst, placement,
                   toc>>
    /\ UNCHANGED <<game, rom, cli>>

\* FST::write into a buffer
FST_write_call ==
    /\ HasFST
    /\ call = NoCall
    /\ call' = [op |-> "write", result |-> FSTWrite(fst.entries)]
    /\ UNCHANGED <<phase, rebuilder, rb_info, frames, decoder, fst, placement,
                   toc>>
    /\ UNCHANGED <<game, rom, cli>>

\* entries whose fields fit the record: filename_offset in 24 bits, the two
\* data fields in 32 bits
CodecOffsets == {0, 5, 16777215}
CodecFields == {0, 3, 16909060}

CodecEntries ==
    {FileEntry(EntryInfo(1, <<>>, o, 0, <<>>), a, b) :
        o \in CodecOffsets, a \in CodecFields, b \in CodecFields}
    \cup
    {DirectoryEntry(EntryInfo(1, <<>>, o, 0, <<>>), a, b, 0) :
        o \in CodecOffsets, a \in CodecFields, b \in CodecFields}

\* Entry::write of one entry into a buffer
Entry_write_call ==
    /\ phase = "start"
    /\ call = NoCall
    /\ \E e \in CodecEntries :
          call' = [op |-> "entry_write", entry |-> e, result |-> EntryWrite(e)]
    /\ UNCHANGED <<phase, rebuilder, rb_info, frames, decoder, fst, placement,
                   toc>>
    /\ UNCHANGED <<game, rom, cli>>

(***************************************************************************)
(* sections/fst/entry.rs: extraction of an entry and of what is below it.  *)
(* The host side is reduced to the order of its effects: every             *)
(* create_dir_all, every copy of a file and every call of the callback is  *)
(* an event, and fail is the index of the entry whose create_dir_all,      *)
(* File::create or copy_to returns an error (NoneIdx: none does).          *)
(***************************************************************************)
Event(ev, arg) == [ev |-> ev, arg |-> arg]

Extracted(status, value, events) ==
    [status |-> status, value |-> value, events |-> events]

\* the value returned with the running total instead of the files of this call
extract_return_total(count, start_count) == count

\* Ok(count - start_count)
extract_return(count, start_count) == count - start_count

\* Entry::extract_with_name_and_count on entry i; ExtractContents is its
\* loop over dir.iter_contents(fst) from cursor cur with the local count
RECURSIVE extract_with_name_and_count(_, _, _, _, _, _)
RECURSIVE ExtractContents(_, _, _, _, _, _, _, _)
extract_with_name_and_count(es, i, start_count, fail, checks, depth) ==
    LET e == At(es, i) IN
    IF i = fail THEN Extracted("Err", 0, <<>>)
    ELSE IF is_dir(e)
    THEN IF depth = 0 THEN Extracted("diverges", 0, <<Event("create_dir", i)>>)
         ELSE LET r == ExtractContents(es, e, i + 1, start_count, fail,
                                       checks, depth - 1, Len(es) + 1)
              IN  IF r.status # "ok"
                  THEN Extracted(r.status, 0,
                                 <<Event("create_dir", i)>> \o r.events)
                  ELSE Extracted("ok", extract_return(r.value, start_count),
                                 <<Event("create_dir", i)>> \o r.events)
    ELSE Extracted("ok", extract_return(start_count + 1, start_count),
                   <<Event("copy", i), Event("callback", start_count + 1)>>)

ExtractContents(es, dir, cur, count, fail, checks, depth, fuel) ==
    LET n == IterNext(es, dir, cur, checks) IN
    IF n.kind = "None" THEN Extracted("ok", count, <<>>)
    ELSE IF n.kind = "panic" THEN Extracted("panic", count, <<>>)
    ELSE IF fuel = 0 THEN Extracted("diverges", count, <<>>)
    ELSE LET c == extract_with_name_and_count(es, n.item, count, fail,
                                              checks, depth)
         IN  IF c.status # "ok" THEN Extracted(c.status, count, c.events)
             ELSE LET rest == ExtractContents(es, dir, n.cur,
                                              count + c.value, fail, checks,
                                              depth, fuel - 1)
                  IN  Extracted(rest.status, rest.value,
                                c.events \o rest.events)

\* Entry::extract_with_name: the count starts at 0
extract_with_name(es, i, fail, checks) ==
    extract_with_name_and_count(es, i, 0, fail, checks, Len(es))

\* Entry::extract_with_name on every entry of the FST (the root from
\* FST::extract_file_system, any other from extract_section_with_name)
extract_with_name_call ==
    /\ HasFST
    /\ call = NoCall
    /\ \E checks \in BOOLEAN :
       \E fail \in Indices(fst.entries) \cup {NoneIdx} :
          call' = [op |-> "extract_with_name",
                   result |-> [e \in Indices(fst.entries) |->
                                  extract_with_name(fst.entries, e, fail,
                                                    checks)]]
    /\ UNCHANGED <<phase, rebuilder, rb_info, frames, decoder, fst, placement,
                   toc>>
    /\ UNCHANGED <<game, rom, cli>>

(***************************************************************************)
(* sections/section.rs and game.rs: the layout index.                      *)
(* A section is its name with the values of Section::start and             *)
(* Section::size.                                                          *)
(***************************************************************************)
Section(name, start, size) == [name |-> name, start |-> start, size |-> size]

\* Section::compare_offset, with Section::end inlined.  end() computes
\* start + size - 1 in u64: when start + size is 0 the subtraction overflows,
\* which panics in a build with overflow checks and otherwise wraps to
\* 2^64 - 1, a value no offset exceeds.
compare_offset(s, offset, checks) ==
    IF s.start + s.size = 0
    THEN IF checks THEN "panic"
         ELSE IF s.start > offset THEN "Greater" ELSE "Equal"
    ELSE IF s.start + s.size - 1 < offset THEN "Less"
    ELSE IF s.start > offset THEN "Greater"
    ELSE "Equal"

\* slice::binary_search_by as the standard library implemented it up to
\* Rust 1.81: bisect [left, right), return at the first Equal probe
RECURSIVE binary_search_by(_, _, _, _, _)
binary_search_by(layout, left, right, offset, checks) ==
    IF left >= right THEN [status |-> "ok", index |-> NoneIdx]
    ELSE LET mid == left + ((right - left) \div 2)
             cmp == compare_offset(layout[mid + 1], offset, checks)
         IN  CASE cmp = "panic" -> [status |-> "panic", index |-> NoneIdx]
               [] cmp = "Less" ->
                     binary_search_by(layout, mid + 1, right, offset, checks)
               [] cmp = "Greater" ->
                     binary_search_by(layout, left, mid, offset, checks)
               [] OTHER -> [status |-> "ok", index |-> mid]

\* slice::binary_search_by as implemented since Rust 1.82: halve `size`
\* keeping `base`, compare once more at the end
RECURSIVE binary_search_by_branchless(_, _, _, _, _)
binary_search_by_branchless(layout, base, size, offset, checks) ==
    IF size = 0 THEN [status |-> "ok", index |-> NoneIdx]
    ELSE IF size > 1
    THEN LET half == size \div 2
             mid == base + half
             cmp == compare_offset(layout[mid + 1], offset, checks)
         IN  IF cmp = "panic" THEN [status |-> "panic", index |-> NoneIdx]
             ELSE binary_search_by_branchless(layout,
                      IF cmp = "Greater" THEN base ELSE mid,
                      size - half, offset, checks)
    ELSE LET cmp == compare_offset(layout[base + 1], offset, checks)
         IN  CASE cmp = "panic" -> [status |-> "panic", index |-> NoneIdx]
               [] cmp = "Equal" -> [status |-> "ok", index |-> base]
               [] OTHER -> [status |-> "ok", index |-> NoneIdx]

\* ROMLayout::find_offset: the index in the layout of the section found
find_offset(layout, offset, checks, branchless) ==
    IF branchless
    THEN binary_search_by_branchless(layout, 0, Len(layout), offset, checks)
    ELSE binary_search_by(layout, 0, Len(layout), offset, checks)

\* the File entries of a table as sections, in index order
RECURSIVE FileSections(_)
FileSections(es) ==
    IF es = <<>> THEN <<>>
    ELSE IF is_file(Head(es))
    THEN <<Section("file", Head(es).file_offset, Head(es).size)>>
             \o FileSections(Tail(es))
    ELSE FileSections(Tail(es))

\* slice::sort_unstable_by_key(start): every order of the elements (given by
\* their positions S in secs) that is ascending in start; elements with
\* equal keys may come out in any order
RECURSIVE sort_unstable_by_key(_, _)
sort_unstable_by_key(secs, S) ==
    IF S = {} THEN {<<>>}
    ELSE UNION {{<<secs[i]>> \o t : t \in sort_unstable_by_key(secs, S \ {i})} :
                   i \in {j \in S : \A k \in S : secs[j].start <= secs[k].start}}

\* Game::rom_layout: the layouts the sort can produce
rom_layout(g) ==
    LET layout == <<g.header, g.apploader, g.dol>> \o g.segments
                      \o <<g.fst>> \o g.files
    IN  sort_unstable_by_key(layout, 1..Len(layout))

\* the apploader as a section: it starts at APPLOADER_OFFSET and spans the
\* whole Apploader.ldr
ApploaderSection(size) == Section("Apploader.ldr", APPLOADER_OFFSET, size)

\* Game::open on the image laid out by FSTRebuilder::rebuild: the header,
\* the apploader, the executable with one text segment after its header,
\* the table, and the files of the table
Game_open_rebuilt ==
    /\ phase = "built"
    /\ game' = [header |-> Section("ISO.hdr", 0, GAME_HEADER_SIZE),
                apploader |-> ApploaderSection(rebuilder.apploader_size),
                dol |-> Section("Start.dol", placement.dol_offset,
                                DOL_HEADER_LEN),
                segments |-> <<Section(".text0",
                                   placement.dol_offset + DOL_HEADER_LEN,
                                   rebuilder.dol_size - DOL_HEADER_LEN)>>,
                fst |-> Section("Game.toc", fst.offset, fst.size),
                files |-> FileSections(fst.entries)]
    /\ phase' = "opened"
    /\ UNCHANGED <<rebuilder, rb_info, frames, decoder, fst, placement, toc,
                   call, rom, cli>>

\* file_offset and size fields of the File records of a table that was not
\* computed by FSTRebuilder::rebuild (an image of another tool, or one
\* rebuilt with --no-rebuild-fst from such a table)
KeptOffsets == {0, 10240, 10248}
KeptSizes == {0, 8}
KeptFstOffset == 9312
KeptDolOffset == 9408
KeptFiles ==
    {<<Section("file", o, n)>> : o \in KeptOffsets, n \in KeptSizes}
    \cup {<<Section("file", o1, n1), Section("file", o2, n2)>> :
             o1 \in KeptOffsets, n1 \in KeptSizes,
             o2 \in KeptOffsets, n2 \in KeptSizes}

\* Game::open on such an image
Game_open_kept ==
    /\ phase = "start"
    /\ \E files \in KeptFiles, ap \in ApploaderSizes :
          game' = [header |-> Section("ISO.hdr", 0, GAME_HEADER_SIZE),
                   apploader |-> ApploaderSection(ap),
                   dol |-> Section("Start.dol", KeptDolOffset, DOL_HEADER_LEN),
                   segments |-> <<Section(".text0",
                                      KeptDolOffset + DOL_HEADER_LEN, 4)>>,
                   fst |-> Section("Game.toc", KeptFstOffset,
                                   (Len(files) + 1) * ENTRY_SIZE + 2 * Len(files)),
                   files |-> files]
    /\ phase' = "opened"
    /\ UNCHANGED <<rebuilder, rb_info, frames, decoder, fst, placement, toc,
                   call, rom, cli>>

\* the offsets at the edges of the sections of a game
EdgeOffsets(g) ==
    LET all == <<g.header, g.apploader, g.dol>> \o g.segments
                   \o <<g.fst>> \o g.files
    IN  {x \in UNION {{all[i].start - 1, all[i].start,
                       all[i].start + all[i].size - 1,
                       all[i].start + all[i].size} : i \in 1..Len(all)} :
            x >= 0 /\ x < ROM_SIZE}

\* main.rs find_offset: rom_layout, then ROMLayout::find_offset, for every
\* offset at the edge of a section
find_offset_call ==
    /\ phase = "opened"
    /\ call = NoCall
    /\ \E layout \in rom_layout(game), checks \in BOOLEAN,
          branchless \in BOOLEAN :
          call' = [op |-> "find_offset",
                   layout |-> layout,
                   result |-> [x \in EdgeOffsets(game) |->
                                  find_offset(layout, x, checks, branchless)]]
    /\ UNCHANGED <<phase, rebuilder, rb_info, frames, decoder, fst, placement,
                   toc, game, rom, cli>>

(***************************************************************************)
(* lib.rs: parse_as_u64.  The texts of the model denote numbers far below  *)
(* 2^64, so the overflow error of from_str_radix does not arise.           *)
(***************************************************************************)
\* char::to_digit(36) for the characters of the model, -1 for any other
DigitOf(c) ==
    CASE c = "0" -> 0 [] c = "1" -> 1 [] c = "2" -> 2 [] c = "3" -> 3
      [] c = "4" -> 4 [] c = "5" -> 5 [] c = "6" -> 6 [] c = "7" -> 7
      [] c = "8" -> 8 [] c = "9" -> 9 [] c = "a" -> 10 [] c = "b" -> 11
      [] c = "x" -> 33 [] OTHER -> -1

RECURSIVE ParseDigits(_, _, _)
ParseDigits(digits, radix, acc) ==
    IF digits = <<>> THEN [ok |-> TRUE, value |-> acc]
    ELSE LET d == DigitOf(Head(digits)) IN
         IF d < 0 \/ d >= radix THEN [ok |-> FALSE, value |-> 0]
         ELSE ParseDigits(Tail(digits), radix, acc * radix + d)

\* u64::from_str_radix: empty input and a lone sign are errors, a leading
\* "+" is accepted, every other character must be a digit of the radix
from_str_radix(src, radix) ==
    IF src = <<>> THEN [ok |-> FALSE, value |-> 0]
    ELSE LET digits == IF Head(src) = "+" THEN Tail(src) ELSE src IN
         IF digits = <<>> THEN [ok |-> FALSE, value |-> 0]
         ELSE ParseDigits(digits, radix, 0)

parse_as_u64(text) ==
    IF Len(text) >= 2 /\ text[1] = "0" /\ text[2] \in {"x", "X"}
    THEN from_str_radix(SubSeq(text, 3, Len(text)), 16)
    ELSE from_str_radix(text, 10)

(***************************************************************************)
(* main.rs: the rebuild command up to the call of ROMRebuilder::rebuild.   *)
(***************************************************************************)
\* the --alignment argument: absent, or its text
NoArg == [given |-> FALSE, text |-> <<>>]
AlignmentTexts ==
    {<<"2">>, <<"3">>, <<"4">>, <<"3", "2">>, <<"0", "x", "2", "0">>,
     <<"0", "x">>, <<"a", "b">>, <<"+", "8">>, <<>>}
AlignmentArgs == {NoArg} \cup {[given |-> TRUE, text |-> t] : t \in AlignmentTexts}

\* the match on `alignment` at the head of rebuild_iso
rebuild_iso_alignment(arg) ==
    IF ~arg.given THEN [ok |-> TRUE, value |-> DEFAULT_ALIGNMENT]
    ELSE LET p == parse_as_u64(arg.text) IN
         IF p.ok /\ p.value >= MIN_ALIGNMENT
         THEN [ok |-> TRUE, value |-> p.value]
         ELSE [ok |-> FALSE, value |-> 0]

\* what the output path names: nothing, or a file or directory with its
\* content ("old": as it was before the command ran)
OutAbsent == [exists |-> FALSE, kind |-> "none", content |-> "none"]
OldFile == [exists |-> TRUE, kind |-> "file", content |-> "old"]
OldDir == [exists |-> TRUE, kind |-> "dir", content |-> "old"]
OutStates == {OutAbsent, OldFile, OldDir}

\* File::create: creates the file or truncates it; fails on a directory
file_create(out) ==
    IF out.kind = "dir" THEN [ok |-> FALSE, out |-> out]
    ELSE [ok |-> TRUE,
          out |-> [exists |-> TRUE, kind |-> "file", content |-> "empty"]]

\* a remove_file that leaves the file in place
remove_file_noop(out) == out

\* fs::remove_file
remove_file(out) == OutAbsent

Command(cmd, pc, arg, al, mode, out_before, out, result) ==
    [cmd |-> cmd, pc |-> pc, arg |-> arg, align |-> al,
     rebuild_systemdata |-> mode, out_before |-> out_before, out |-> out,
     result |-> result]

\* rebuild_iso from its start to the creation of the output file
rebuild_iso_begin ==
    /\ cli = NoCli
    /\ phase = "start"
    /\ \E arg \in AlignmentArgs, out0 \in OutStates, root_exists \in BOOLEAN,
          mode \in BOOLEAN :
          LET al == rebuild_iso_alignment(arg)
              c == file_create(out0)
          IN  IF ~al.ok \/ out0.exists \/ ~root_exists \/ ~c.ok
              THEN cli' = Command("rebuild", "returned", arg, al, mode, out0,
                                  out0, "Err")
              ELSE cli' = Command("rebuild", "created", arg, al, mode, out0,
                                  c.out, "none")
    /\ UNCHANGED <<phase, rebuilder, rb_info, frames, decoder, fst, placement,
                   toc, call, game, rom>>

(***************************************************************************)
(* rom_rebuilder.rs: ROMRebuilder.                                         *)
(***************************************************************************)
\* a placed file: its offset in the image, its host path, and the length
\* that File::metadata reports for it when it is written
Placed(offset, path, size) == [offset |-> offset, path |-> path, size |-> size]

\* the order of the host paths of the model under Ord for PathBuf (by
\* component, bytewise): the files of &&systemdata, then "a", then "b"
PathOrd(path) ==
    CASE path = "&&systemdata/Apploader.ldr" -> 1
      [] path = "&&systemdata/Game.toc" -> 2
      [] path = "&&systemdata/ISO.hdr" -> 3
      [] path = "&&systemdata/Start.dol" -> 4
      [] path = "a" -> 5
      [] path = "b" -> 6

\* Vec<(u64, PathBuf)>::sort
RECURSIVE SortFiles(_)
SortFiles(S) ==
    IF S = {} THEN <<>>
    ELSE LET m == CHOOSE x \in S : \A y \in S :
                      \/ x.offset < y.offset
                      \/ x.offset = y.offset /\ PathOrd(x.path) <= PathOrd(y.path)
         IN  <<m>> \o SortFiles(S \ {m})

\* FileSystemRebuilder::rebuild: the four system files and the files of the
\* table, sorted
FileSystemRebuilder_rebuild(apploader_size, fst_offset, fst_size, dol_offset, dol_size, files) ==
    SortFiles({Placed(APPLOADER_OFFSET, "&&systemdata/Apploader.ldr",
                      apploader_size),
               Placed(dol_offset, "&&systemdata/Start.dol", dol_size),
               Placed(fst_offset, "&&systemdata/Game.toc", fst_size),
               Placed(0, "&&systemdata/ISO.hdr", GAME_HEADER_SIZE)}
              \cup files)

\* write_zeros that emits one chunk only
write_zeros_one_chunk(remaining) ==
    IF remaining > 0
    THEN IF WRITE_CHUNK_SIZE <= remaining THEN WRITE_CHUNK_SIZE ELSE remaining
    ELSE 0

\* write_zeros: the number of bytes it emits, which is the full chunks of
\* WRITE_CHUNK_SIZE bytes followed by one shorter chunk for the rest
write_zeros(remaining) ==
    IF remaining > 0
    THEN (remaining \div WRITE_CHUNK_SIZE) * WRITE_CHUNK_SIZE
             + (remaining % WRITE_CHUNK_SIZE)
    ELSE 0

\* a capacity test that also rejects an image filled exactly
exceeds_capacity_when_full(bytes_written) == bytes_written >= ROM_SIZE

\* the capacity test of ROMRebuilder::write
exceeds_capacity(bytes_written) == bytes_written > ROM_SIZE

Writing(files) ==
    [files |-> files, i |-> 1, bytes_written |-> 0, emitted |-> 0,
     tail |-> 0, status |-> "writing"]

\* ROMRebuilder::rebuild with rebuild_systemdata: FSTRebuilder::new fails
\* when Apploader.ldr or Start.dol is missing; otherwise FSTRebuilder::rebuild
\* walks the tree and writes the table, root record first.  The walk is that
\* of an empty tree here: the record of the root is written first whatever
\* the tree holds.
ROMRebuilder_rebuild_full ==
    /\ cli.cmd = "rebuild"
    /\ cli.pc = "created"
    /\ cli.rebuild_systemdata
    /\ rom = NoRom
    /\ \E present \in BOOLEAN, ap \in ApploaderSizes, dl \in DolSizes :
          IF ~present
          THEN rom' = [NoRom EXCEPT !.status = "io_error"]
          ELSE LET root_entry ==
                       DirectoryEntry(
                           EntryInfo(0, <<SEP>>, 0, NoneIdx, <<SEP>>), 0, 0, 0)
                   r == rebuild_dir_info_enter(
                            [NoRbInfo EXCEPT !.alignment = cli.align.value],
                            root_entry)
                   l == rebuild_layout(rebuild_dir_info_exit(r.rb, r.frame),
                            [apploader_size |-> ap, dol_size |-> dl,
                             alignment |-> cli.align.value])
                   w == FSTWrite(l.fst.entries)
               IN  IF w.status # "ok"
                   THEN rom' = [NoRom EXCEPT !.status = "panic"]
                   ELSE rom' = Writing(FileSystemRebuilder_rebuild(
                                   ap, l.fst.offset, Len(w.bytes),
                                   l.placement.dol_offset, dl, {}))
    /\ UNCHANGED <<phase, rebuilder, rb_info, frames, decoder, fst, placement,
                   toc, call, game, cli>>

\* offsets of the File records of a kept table near the start and near the
\* end of the image, and host lengths of the files they name
WriteOffsets == {10240, 10248, ROM_SIZE - 8, ROM_SIZE}
HostSizes == {0, 8, 16}
KeptPlacements ==
    {{Placed(o, "a", n)} : o \in WriteOffsets, n \in HostSizes}
    \cup {{Placed(o1, "a", n1), Placed(o2, "b", n2)} :
             o1 \in WriteOffsets, n1 \in HostSizes,
             o2 \in WriteOffsets, n2 \in HostSizes}

\* ROMRebuilder::rebuild without rebuild_systemdata: Game.toc and ISO.hdr are
\* opened and decoded (a missing or invalid file is an error, a root record
\* that is no directory a panic of FST::new), then FileSystemRebuilder::rebuild
ROMRebuilder_rebuild_keep ==
    /\ cli.cmd = "rebuild"
    /\ cli.pc = "created"
    /\ ~cli.rebuild_systemdata
    /\ rom = NoRom
    /\ \E load \in {"ok", "error", "panic"}, files \in KeptPlacements :
          rom' = CASE load = "error" -> [NoRom EXCEPT !.status = "io_error"]
                   [] load = "panic" -> [NoRom EXCEPT !.status = "panic"]
                   [] OTHER ->
                        Writing(FileSystemRebuilder_rebuild(
                            32, KeptFstOffset,
                            (Cardinality(files) + 1) * ENTRY_SIZE
                                + 2 * Cardinality(files),
                            KeptDolOffset, 260, files))
    /\ UNCHANGED <<phase, rebuilder, rb_info, frames, decoder, fst, placement,
                   toc, call, game, cli>>

\* one iteration of the loop of ROMRebuilder::write.  offset - bytes_written
\* is a u64 subtraction: when it underflows, a build with overflow checks
\* panics, and any other build asks write_zeros for more than 2^63 bytes,
\* which no output file can take, so write_all fails.
ROMRebuilder_write_file ==
    /\ rom.status = "writing"
    /\ rom.i <= Len(rom.files)
    /\ LET f == rom.files[rom.i] IN
       \E opens \in BOOLEAN, checks \in BOOLEAN :
          IF ~opens
          THEN rom' = [rom EXCEPT !.status = "io_error"]
          ELSE IF f.size = 0
          THEN rom' = [rom EXCEPT !.i = @ + 1]
          ELSE IF f.offset < rom.bytes_written
          THEN rom' = [rom EXCEPT
                          !.status = IF checks THEN "panic" ELSE "io_error"]
          ELSE LET zeros == write_zeros(f.offset - rom.bytes_written)
                   bytes_written == f.offset + f.size
               IN  rom' = [rom EXCEPT
                              !.emitted = @ + zeros + f.size,
                              !.bytes_written = bytes_written,
                              !.status = IF exceeds_capacity(bytes_written)
                                         THEN "capacity" ELSE @,
                              !.i = IF exceeds_capacity(bytes_written)
                                    THEN @ ELSE @ + 1]
    /\ UNCHANGED <<phase, rebuilder, rb_info, frames, decoder, fst, placement,
                   toc, call, game, cli>>

\* ROMRebuilder::write after the loop: the trailing zero-fill
\* (ROM_SIZE - bytes_written is a usize subtraction)
ROMRebuilder_write_tail ==
    /\ rom.status = "writing"
    /\ rom.i > Len(rom.files)
    /\ \E checks \in BOOLEAN :
          IF rom.bytes_written > ROM_SIZE
          THEN rom' = [rom EXCEPT
                          !.status = IF checks THEN "panic" ELSE "io_error"]
          ELSE LET zeros == write_zeros(ROM_SIZE - rom.bytes_written)
               IN  rom' = [rom EXCEPT !.emitted = @ + zeros,
                                      !.tail = zeros,
                                      !.status = "ok"]
    /\ UNCHANGED <<phase, rebuilder, rb_info, frames, decoder, fst, placement,
                   toc, call, game, cli>>

\* rebuild_iso after ROMRebuilder::rebuild: an error removes the output
\* file; a panic ends the process where it stands
rebuild_iso_return ==
    /\ cli.cmd = "rebuild"
    /\ cli.pc = "created"
    /\ rom.status \in {"ok", "capacity", "io_error", "panic"}
    /\ cli' = CASE rom.status = "ok" ->
                      [cli EXCEPT !.pc = "returned", !.result = "Ok"]
                [] rom.status = "panic" ->
                      [cli EXCEPT !.pc = "aborted"]
                [] OTHER ->
                      [cli EXCEPT !.pc = "returned", !.result = "Err",
                                  !.out = remove_file(@)]
    /\ UNCHANGED <<phase, rebuilder, rb_info, frames, decoder, fst, placement,
                   toc, call, game, rom>>

(***************************************************************************)
(* main.rs and game.rs: the extract command.                               *)
(***************************************************************************)
\* fs::create_dir_all: succeeds on an existing directory, fails on a file
create_dir_all(out) ==
    IF out.kind = "file" THEN [ok |-> FALSE, out |-> out]
    ELSE IF out.exists THEN [ok |-> TRUE, out |-> out]
    ELSE [ok |-> TRUE,
          out |-> [exists |-> TRUE, kind |-> "dir", content |-> "empty"]]

\* what the section name of `extract -s` resolves to: a system file
\* (HEADER_PATH, APPLOADER_PATH, DOL_PATH, FST_PATH), a File or a Directory
\* found by entry_for_path, a segment of the executable, or nothing
SectionKinds == {"system", "file", "dir", "segment", "missing"}

\* Game::extract_section_with_name: the output path afterwards and the
\* result (Ok(true), Ok(false) or Err)
extract_section_with_name(kind, out) ==
    CASE kind = "missing" -> [result |-> "Ok(false)", out |-> out]
      [] kind = "dir" ->
            LET d == create_dir_all(out) IN
            IF ~d.ok THEN [result |-> "Err", out |-> out]
            ELSE [result |-> "Ok(true)",
                  out |-> [d.out EXCEPT !.content = "written"]]
      [] OTHER ->
            LET c == file_create(out) IN
            IF ~c.ok THEN [result |-> "Err", out |-> out]
            ELSE [result |-> "Ok(true)",
                  out |-> [c.out EXCEPT !.content = "written"]]

\* main.rs extract_section
extract_section(input_ok, kind, out) ==
    IF ~input_ok THEN [result |-> "Err", out |-> out]
    ELSE LET r == extract_section_with_name(kind, out) IN
         [result |-> IF r.result = "Ok(true)" THEN "Ok" ELSE "Err",
          out |-> r.out]

\* main.rs extract_iso, with Game::extract for the whole image
extract_iso ==
    /\ cli = NoCli
    /\ phase = "start"
    /\ \E out0 \in OutStates, input_ok \in BOOLEAN,
          file_in_iso \in SectionKinds \cup {"None"} :
          IF file_in_iso # "None"
          THEN LET r == extract_section(input_ok, file_in_iso, out0) IN
               cli' = Command("extract_section", "returned", NoArg,
                              [ok |-> TRUE, value |-> 0], FALSE, out0, r.out,
                              r.result)
          ELSE IF out0.exists \/ ~input_ok
          THEN cli' = Command("extract", "returned", NoArg,
                              [ok |-> TRUE, value |-> 0], FALSE, out0, out0,
                              "Err")
          ELSE cli' = Command("extract", "returned", NoArg,
                              [ok |-> TRUE, value |-> 0], FALSE, out0,
                              [exists |-> TRUE, kind |-> "dir",
                               content |-> "written"],
                              "Ok")
    /\ UNCHANGED <<phase, rebuilder, rb_info, frames, decoder, fst, placement,
                   toc, call, game, rom>>

(***************************************************************************)
(* The specification.                                                      *)
(***************************************************************************)
Init ==
    /\ phase = "start"
    /\ rebuilder = NoRebuilder
    /\ rb_info = NoRbInfo
    /\ frames = <<>>
    /\ decoder = NoDecoder
    /\ fst = NoFST
    /\ placement = NoPlacement
    /\ toc = NoToc
    /\ call = NoCall
    /\ game = NoGame
    /\ rom = NoRom
    /\ cli = NoCli

Next ==
    \/ FSTRebuilder_new
    \/ add_entries_in_directory
    \/ rebuild_dir_info_return
    \/ FSTRebuilder_write_toc
    \/ FST_new_root
    \/ FST_new_record
    \/ FST_new_names
    \/ iter_contents_call
    \/ entry_for_path_call
    \/ FST_write_call
    \/ Entry_write_call

Spec == Init /\ [][Next]_vars

\* the rebuild walk, Game::open on its layout or on a kept table, and the
\* layout index
NextLayout ==
    \/ FSTRebuilder_new
    \/ add_entries_in_directory
    \/ rebuild_dir_info_return
    \/ Game_open_rebuilt
    \/ Game_open_kept
    \/ find_offset_call

SpecLayout == Init /\ [][NextLayout]_vars

\* the rebuild and extract commands
NextCli ==
    \/ rebuild_iso_begin
    \/ ROMRebuilder_rebuild_full
    \/ ROMRebuilder_rebuild_keep
    \/ ROMRebuilder_write_file
    \/ ROMRebuilder_write_tail
    \/ rebuild_iso_return
    \/ extract_iso

SpecCli == Init /\ [][NextCli]_vars

\* extraction from a rebuilt or decoded FST
NextExtract ==
    \/ FSTRebuilder_new
    \/ add_entries_in_directory
    \/ rebuild_dir_info_return
    \/ FST_new_root
    \/ FST_new_record
    \/ FST_new_names
    \/ extract_with_name_call

SpecExtract == Init /\ [][NextExtract]_vars

\* lookups and iteration on a rebuilt or decoded FST
NextQuery ==
    \/ FSTRebuilder_new
    \/ add_entries_in_directory
    \/ rebuild_dir_info_return
    \/ FST_new_root
    \/ FST_new_record
    \/ FST_new_names
    \/ entry_with_name_call

SpecQuery == Init /\ [][NextQuery]_vars

(***************************************************************************)
(* Vocabulary of the properties.                                           *)
(***************************************************************************)
\* the elements of a set of integers in increasing order
RECURSIVE SortedSeq(_)
SortedSeq(S) ==
    IF S = {} THEN <<>>
    ELSE LET m == CHOOSE x \in S : \A y \in S : x <= y
         IN  <<m>> \o SortedSeq(S \ {m})

ChildrenOf(es, d) == {i \in Indices(es) : At(es, i).info.directory_index = d}

SubtreeSize(e) == IF is_file(e) THEN 1 ELSE e.next_index - e.info.index

\* the index ranges of a table form a tree: the root spans the table, every
\* directory spans at least itself and nests inside the directories around it
WellFormed(es) ==
    /\ Len(es) >= 1
    /\ is_dir(At(es, 0))
    /\ At(es, 0).next_index = Len(es)
    /\ \A i \in Directories(es) :
          /\ i < At(es, i).next_index
          /\ At(es, i).next_index <= Len(es)
          /\ \A j \in Directories(es) :
                (i < j /\ j < At(es, i).next_index)
                    => At(es, j).next_index <= At(es, i).next_index

NoSiblingsShareName(es) ==
    \A i, j \in Indices(es) :
        (i # j /\ At(es, i).info.directory_index = At(es, j).info.directory_index)
            => At(es, i).info.name # At(es, j).info.name

SumOfFileSizes(es) ==
    SumSeq([k \in 1..Len(es) |-> IF is_file(es[k]) THEN es[k].size ELSE 0])

\* whether bytes is a UTF-8 encoding
RECURSIVE IsUtf8(_)
IsUtf8(bytes) ==
    IF bytes = <<>> THEN TRUE
    ELSE IF Head(bytes) < 128 THEN IsUtf8(Tail(bytes))
    ELSE IF Len(bytes) >= 2 /\ SubSeq(bytes, 1, 2) = <<195, 169>>
    THEN IsUtf8(SubSeq(bytes, 3, Len(bytes)))
    ELSE IF Len(bytes) >= 3 /\ SubSeq(bytes, 1, 3) = <<239, 191, 189>>
    THEN IsUtf8(SubSeq(bytes, 4, Len(bytes)))
    ELSE FALSE

\* the bytes of the name of a non-root entry in the string table
NameBytes(strtab, e) ==
    LET bytes == read_until_null(strtab, e.info.filename_offset)
    IN  IF bytes # <<>> /\ Last(bytes) = 0 THEN Front(bytes) ELSE bytes

\* every non-root name is stored in the string table as a non-empty UTF-8
\* string without a separator, followed by its terminator
NamesWellFormed(es, strtab) ==
    \A i \in Indices(es) \ {0} :
        LET bytes == read_until_null(strtab, At(es, i).info.filename_offset)
        IN  /\ Len(bytes) >= 2
            /\ Last(bytes) = 0
            /\ IsUtf8(Front(bytes))
            /\ \A k \in 1..Len(bytes) : bytes[k] # 47

(***************************************************************************)
(* C1: on an FST decoded from a well-formed table or built by the          *)
(* rebuilder, iter_contents(d) yields exactly the entries whose            *)
(* directory_index is d, once each and in increasing index order, and the  *)
(* subtree sizes of the yielded entries sum to d.next_index - d.index - 1. *)
(***************************************************************************)
TreeContainment ==
    (/\ call.op = "iter_contents"
     /\ \/ phase = "built"
        \/ phase = "decoded" /\ WellFormed(fst.entries))
    => \A d \in DOMAIN call.result :
          LET r == call.result[d]
              dir == At(fst.entries, d)
          IN  /\ r.status = "ok"
              /\ r.items = SortedSeq(ChildrenOf(fst.entries, d))
              /\ SumSeq([k \in 1..Len(r.items) |->
                            SubtreeSize(At(fst.entries, r.items[k]))])
                    = dir.next_index - dir.info.index - 1

\* a decoded well-formed table in which a directory holds a non-empty
\* subdirectory and a later sibling, iterated
TreeContainmentWitness ==
    /\ call.op = "iter_contents"
    /\ phase = "decoded"
    /\ WellFormed(fst.entries)
    /\ \E d \in DOMAIN call.result :
          /\ Len(call.result[d].items) >= 2
          /\ \E k \in 1..(Len(call.result[d].items) - 1) :
                LET c == At(fst.entries, call.result[d].items[k])
                IN  is_dir(c) /\ SubtreeSize(c) >= 2

(***************************************************************************)
(* C2: on a decoded FST in which no two siblings share a name,             *)
(* entry_for_path(e.full_path) returns e, for every entry e.               *)
(***************************************************************************)
PathResolution ==
    (/\ call.op = "entry_for_path"
     /\ phase = "decoded"
     /\ WellFormed(fst.entries)
     /\ NamesWellFormed(fst.entries, decoder.strtab)
     /\ NoSiblingsShareName(fst.entries))
    => \A e \in DOMAIN call.result :
          call.result[e] = [status |-> "ok", entry |-> e]

(***************************************************************************)
(* C3: after decode and after rebuild, total_file_system_size is the sum   *)
(* of the raw sizes of the File entries.                                   *)
(***************************************************************************)
TotalSizeIsRawSum ==
    phase \in {"built", "decoded"}
        => fst.total_file_system_size = SumOfFileSizes(fst.entries)

(***************************************************************************)
(* C4: after decode and after rebuild, file_count is the number of File    *)
(* entries.                                                                *)
(***************************************************************************)
FileCountIsFiles ==
    phase \in {"built", "decoded"}
        => fst.file_count = Cardinality(Files(fst.entries))

\* a rebuilt tree with two files and a subdirectory
FileCountWitness ==
    /\ phase = "built"
    /\ Cardinality(Files(fst.entries)) >= 2
    /\ Cardinality(Directories(fst.entries)) >= 2

(***************************************************************************)
(* C5: after rebuild with alignment a, every file_offset is a multiple of  *)
(* a, and the byte ranges [file_offset, file_offset + size) of two         *)
(* distinct files do not overlap.                                          *)
(***************************************************************************)
FilesAlignedAndDisjoint ==
    phase = "built"
        => /\ \A f \in Files(fst.entries) :
                 At(fst.entries, f).file_offset % rebuilder.alignment = 0
           /\ \A f, g \in Files(fst.entries) :
                 f # g =>
                    LET x == At(fst.entries, f)
                        y == At(fst.entries, g)
                    IN  \/ x.file_offset + x.size <= y.file_offset
                        \/ y.file_offset + y.size <= x.file_offset

\* two non-empty files whose sizes are not multiples of the alignment
FilesAlignedWitness ==
    /\ phase = "built"
    /\ \E f, g \in Files(fst.entries) :
          /\ f < g
          /\ At(fst.entries, f).size % rebuilder.alignment # 0
          /\ At(fst.entries, g).size % rebuilder.alignment # 0

(***************************************************************************)
(* C6: FST::write of a rebuilt tree T emits a table, and FST::new of that  *)
(* table yields the entries of T: same count, and entry by entry the same  *)
(* kind, name, filename_offset, file_offset and size, or parent_index and  *)
(* next_index.                                                             *)
(***************************************************************************)
SameRecord(x, y) ==
    /\ x.kind = y.kind
    /\ x.info.name = y.info.name
    /\ x.info.filename_offset = y.info.filename_offset
    /\ IF is_file(x)
       THEN x.file_offset = y.file_offset /\ x.size = y.size
       ELSE x.parent_index = y.parent_index /\ x.next_index = y.next_index

SameTree(xs, ys) ==
    /\ Len(xs) = Len(ys)
    /\ \A i \in 1..Len(xs) : SameRecord(xs[i], ys[i])

RoundTrip ==
    /\ (call.op = "write" /\ phase = "built") => call.result.status = "ok"
    /\ (phase = "decoded" /\ toc.written) => SameTree(fst.entries, toc.tree)

(***************************************************************************)
(* C7: Entry::write of an entry whose fields fit emits 12 bytes (tag,      *)
(* 24-bit big-endian filename_offset, two 32-bit big-endian fields)        *)
(* without error, and Entry::new of those bytes gives the same variant     *)
(* with the same filename_offset and fields.                               *)
(***************************************************************************)
EntryWriteInvertsNew ==
    call.op = "entry_write"
        => /\ call.result.status = "ok"
           /\ Len(call.result.bytes) = ENTRY_SIZE
           /\ call.result.bytes[1] = (IF is_dir(call.entry) THEN 1 ELSE 0)
           /\ LET back == EntryNew(call.result.bytes, call.entry.info.index,
                                   call.entry.info.directory_index)
              IN  back.ok /\ back.entry = call.entry

(***************************************************************************)
(* C8: when a record read by FST::new, the root record included, has a tag *)
(* byte other than 0 and 1, FST::new returns an error and no FST.          *)
(***************************************************************************)
BadTagIsError ==
    (/\ decoder.entry_buffer # <<>>
     /\ decoder.entry_buffer[1] \notin {0, 1})
    => phase = "error" /\ fst = NoFST

(***************************************************************************)
(* C9: when the first record of the table is a File, FST::new returns an   *)
(* error and no FST.                                                       *)
(***************************************************************************)
RootFileIsError ==
    (/\ decoder.entry_buffer # <<>>
     /\ decoder.index = 0
     /\ decoder.entry_buffer[1] = 0)
    => phase = "error" /\ fst = NoFST

(***************************************************************************)
(* C10: FST::new returns an FST only if the string-table bytes of the name *)
(* of every non-root entry are UTF-8.                                      *)
(***************************************************************************)
InvalidNameIsError ==
    (phase = "decoded" /\ ~toc.written)
        => \A i \in Indices(fst.entries) \ {0} :
              IsUtf8(NameBytes(decoder.strtab, At(fst.entries, i)))

(***************************************************************************)
(* C11: after FST::new decodes a well-formed table, the file_count of      *)
(* every Directory, the root included, is the number of entries whose      *)
(* directory_index is that directory's index.                              *)
(***************************************************************************)
DirFileCountIsChildren ==
    (phase = "decoded" /\ WellFormed(fst.entries))
        => \A d \in Directories(fst.entries) :
              At(fst.entries, d).file_count
                  = Cardinality(ChildrenOf(fst.entries, d))

\* whether section s holds the byte at offset x
Covers(s, x) == s.start <= x /\ x < s.start + s.size

(***************************************************************************)
(* C12: find_offset(x) returns None whenever no section of the layout      *)
(* holds x, that is none has start <= x < start + size.                    *)
(***************************************************************************)
UncoveredOffsetIsNone ==
    call.op = "find_offset"
        => \A x \in DOMAIN call.result :
              (\A i \in 1..Len(call.layout) : ~Covers(call.layout[i], x))
                  => call.result[x] = [status |-> "ok", index |-> NoneIdx]

(***************************************************************************)
(* C13: find_offset(x) returns a section that holds x whenever some        *)
(* section of the layout holds x, zero-length files included in the        *)
(* layout.                                                                 *)
(***************************************************************************)
CoveredOffsetIsFound ==
    call.op = "find_offset"
        => \A x \in DOMAIN call.result :
              (\E i \in 1..Len(call.layout) : Covers(call.layout[i], x))
                  => /\ call.result[x].status = "ok"
                     /\ call.result[x].index # NoneIdx
                     /\ Covers(call.layout[call.result[x].index + 1], x)

(***************************************************************************)
(* C14: in the layout computed by FSTRebuilder::rebuild the header         *)
(* [0, APPLOADER_OFFSET), the apploader, the table, the executable and the *)
(* files in index order follow one another without overlap: each region    *)
(* ends at or before the start of the next.                                *)
(***************************************************************************)
Region(start, size) == [start |-> start, end |-> start + size]

RebuiltRegions ==
    <<Region(0, APPLOADER_OFFSET),
      Region(APPLOADER_OFFSET, rebuilder.apploader_size),
      Region(fst.offset, fst.size),
      Region(placement.dol_offset, rebuilder.dol_size)>>
    \o [k \in 1..Cardinality(Files(fst.entries)) |->
           LET f == At(fst.entries, SortedSeq(Files(fst.entries))[k])
           IN  Region(f.file_offset, f.size)]

RegionsInOrder ==
    phase = "built"
        => \A i, j \in 1..Len(RebuiltRegions) :
              i < j => RebuiltRegions[i].end <= RebuiltRegions[j].start

\* a layout with an apploader that ends off the alignment and two non-empty
\* files
RegionsInOrderWitness ==
    /\ phase = "built"
    /\ rebuilder.apploader_size % rebuilder.alignment # 0
    /\ \E f, g \in Files(fst.entries) :
          f < g /\ At(fst.entries, f).size > 0 /\ At(fst.entries, g).size > 0

(***************************************************************************)
(* C15: whenever ROMRebuilder::write returns Ok, the bytes it emitted      *)
(* (gaps, contents and trailing zero-fill) number exactly ROM_SIZE.        *)
(***************************************************************************)
ImageHasRomSize == rom.status = "ok" => rom.emitted = ROM_SIZE

\* a write that returned Ok after copying a non-empty file that does not
\* start at the cursor
ImageHasRomSizeWitness ==
    /\ rom.status = "ok"
    /\ \E k \in 1..Len(rom.files) :
          /\ rom.files[k].path = "a"
          /\ rom.files[k].size > 0
    /\ rom.tail > 0

(***************************************************************************)
(* C16: ROMRebuilder::write returns the capacity error exactly when a      *)
(* non-empty placed file ends past ROM_SIZE: the loop does not go on past  *)
(* such a file, it returns Ok only if there is none, and when it returns   *)
(* the error the file at the cursor is such a file, nothing was emitted    *)
(* after its contents and no trailing zero-fill was written.               *)
(***************************************************************************)
EndsPastCapacity(f) == f.size > 0 /\ f.offset + f.size > ROM_SIZE

CapacityErrorIffPastEnd ==
    /\ rom.status = "capacity"
          => /\ EndsPastCapacity(rom.files[rom.i])
             /\ \A k \in 1..(rom.i - 1) : ~EndsPastCapacity(rom.files[k])
             /\ rom.emitted = rom.files[rom.i].offset + rom.files[rom.i].size
             /\ rom.tail = 0
    /\ rom.status = "writing"
          => \A k \in 1..(rom.i - 1) : ~EndsPastCapacity(rom.files[k])
    /\ rom.status = "ok"
          => \A k \in 1..Len(rom.files) : ~EndsPastCapacity(rom.files[k])

\* the capacity error, returned at a file that is followed by another
CapacityErrorWitness ==
    /\ rom.status = "capacity"
    /\ rom.i < Len(rom.files)

\* an image filled exactly: a file ends at ROM_SIZE and write returns Ok
FilledExactlyWitness ==
    /\ rom.status = "ok"
    /\ \E k \in 1..Len(rom.files) :
          rom.files[k].size > 0
              /\ rom.files[k].offset + rom.files[k].size = ROM_SIZE

(***************************************************************************)
(* C17: when ROMRebuilder::rebuild returns an error after rebuild_iso      *)
(* created the output file, the output path does not exist when            *)
(* rebuild_iso returns.                                                    *)
(***************************************************************************)
FailedRebuildLeavesNoImage ==
    (/\ cli.cmd = "rebuild"
     /\ cli.pc = "returned"
     /\ rom.status \in {"capacity", "io_error"})
    => cli.result = "Err" /\ ~cli.out.exists

\* rebuild_iso returned after the capacity error
FailedRebuildWitness ==
    /\ cli.cmd = "rebuild"
    /\ cli.pc = "returned"
    /\ rom.status = "capacity"
    /\ ~cli.out_before.exists

(***************************************************************************)
(* C18: when the output path of an extract or rebuild command exists       *)
(* before the command runs, the command fails and the path is left as it   *)
(* was: nothing is created, truncated or written.                          *)
(***************************************************************************)
ExistingOutputUntouched ==
    (cli.cmd # "none" /\ cli.out_before.exists)
        => /\ cli.out = cli.out_before
           /\ cli.pc = "returned" => cli.result = "Err"

(***************************************************************************)
(* C19: the rebuild command accepts an alignment argument exactly when it  *)
(* parses as a number that is at least the documented minimum of 2, and    *)
(* uses 32768 when none is given.                                          *)
(***************************************************************************)
DocumentedMinAlignment == 2

AlignmentAccepted ==
    cli.cmd = "rebuild"
        => IF cli.arg.given
           THEN cli.align.ok
                    <=> /\ parse_as_u64(cli.arg.text).ok
                        /\ parse_as_u64(cli.arg.text).value
                               >= DocumentedMinAlignment
           ELSE cli.align = [ok |-> TRUE, value |-> 32768]

(***************************************************************************)
(* C20: on an FST built by the rebuilder or decoded from a well-formed     *)
(* table, a successful extract_with_name on an entry whose subtree holds N *)
(* File entries returns N, copies those files in increasing index order,   *)
(* and calls the callback exactly N times, each call directly after the    *)
(* copy of a file, with the arguments 1, 2, ..., N in that order; no       *)
(* callback follows the creation of a directory.                           *)
(***************************************************************************)
SubtreeFiles(es, i) ==
    IF is_file(At(es, i)) THEN {i}
    ELSE {j \in Files(es) : i < j /\ j < At(es, i).next_index}

EventArgs(events, ev) ==
    LET Is(x) == x.ev = ev
        sel == SelectSeq(events, Is)
    IN  [k \in 1..Len(sel) |-> sel[k].arg]

ExtractCountsFiles ==
    (/\ call.op = "extract_with_name"
     /\ \/ phase = "built"
        \/ phase = "decoded" /\ WellFormed(fst.entries))
    => \A e \in DOMAIN call.result :
          LET r == call.result[e]
              files == SortedSeq(SubtreeFiles(fst.entries, e))
              N == Len(files)
          IN  r.status = "ok"
              => /\ r.value = N
                 /\ EventArgs(r.events, "copy") = files
                 /\ EventArgs(r.events, "callback") = [k \in 1..N |-> k]
                 /\ \A k \in 1..Len(r.events) :
                       r.events[k].ev = "callback"
                           => k > 1 /\ r.events[k - 1].ev = "copy"

\* a decoded well-formed table whose root holds a directory with a file in
\* it and a file after it, extracted without an I/O error
ExtractCountsFilesWitness ==
    /\ call.op = "extract_with_name"
    /\ phase = "decoded"
    /\ WellFormed(fst.entries)
    /\ call.result[0].status = "ok"
    /\ call.result[0].value >= 2
    /\ \E d \in Directories(fst.entries) \ {0} :
          /\ SubtreeFiles(fst.entries, d) # {}
          /\ \E f \in Files(fst.entries) : f >= At(fst.entries, d).next_index

(***************************************************************************)
(* C21: on an FST built by the rebuilder or decoded from a well-formed     *)
(* table, entry_for_path on a relative path returns the entry of smallest  *)
(* index among the entries below the root whose name equals the path, and  *)
(* None when no entry has that name.                                       *)
(***************************************************************************)
NamedEntries(es, name) ==
    {i \in Indices(es) \ {0} : At(es, i).info.name = name}

BareNameFindsFirst ==
    (/\ call.op = "entry_with_name"
     /\ \/ phase = "built"
        \/ phase = "decoded" /\ WellFormed(fst.entries))
    => \A name \in DOMAIN call.result :
          LET found == NamedEntries(fst.entries, name) IN
          /\ ~is_absolute(name)
          /\ call.result[name] =
                [status |-> "ok",
                 entry |-> IF found = {} THEN NoneIdx
                           ELSE CHOOSE i \in found : \A j \in found : i <= j]

\* a decoded well-formed table in which a name is carried by an entry
\* inside a subdirectory and again by a later entry of the root, looked up
BareNameFindsFirstWitness ==
    /\ call.op = "entry_with_name"
    /\ phase = "decoded"
    /\ WellFormed(fst.entries)
    /\ call.result[NameAbsent].entry = NoneIdx
    /\ \E name \in DOMAIN call.result :
       \E i, j \in NamedEntries(fst.entries, name) :
          /\ i < j
          /\ At(fst.entries, i).info.directory_index # 0
          /\ At(fst.entries, j).info.directory_index = 0
          /\ call.result[name].entry = i

(***************************************************************************)
(* C22: during and after the rebuild walk, the filename_offset of every    *)
(* entry below the root is the sum, over the entries below the root        *)
(* created before it, of the byte length of the UTF-8 name plus one, and   *)
(* the counter of the accumulator is that sum over all of them.            *)
(***************************************************************************)
NameBytesBefore(es, i) ==
    SumSeq([k \in 1..(i - 1) |-> Len(as_bytes(At(es, k).info.name)) + 1])

FilenameOffsetsAreByteSums ==
    phase \in {"walk", "built"}
    => /\ \A i \in Indices(rb_info.entries) \ {0} :
             At(rb_info.entries, i).info.filename_offset
                 = NameBytesBefore(rb_info.entries, i)
       /\ rb_info.filename_offset
             = NameBytesBefore(rb_info.entries, Len(rb_info.entries))

(***************************************************************************)
(* C23: FST::write on a rebuilt FST emits the fixed records first, in      *)
(* index order, then a string table in which the bytes at filename_offset  *)
(* of every entry below the root are that entry's name followed by a null  *)
(* byte; it emits FST.size bytes in all.                                   *)
(***************************************************************************)
RecordOf(e) ==
    RecordBytes(IF is_dir(e) THEN 1 ELSE 0, e.info.filename_offset,
                IF is_file(e) THEN e.file_offset ELSE e.parent_index,
                IF is_file(e) THEN e.size ELSE e.next_index)

WrittenTableMatches ==
    (call.op = "write" /\ phase = "built")
    => LET es == fst.entries
           bytes == call.result.bytes
           strtab == Len(es) * ENTRY_SIZE
       IN  /\ call.result.status = "ok"
           /\ Len(bytes) = fst.size
           /\ \A i \in Indices(es) :
                 SubSeq(bytes, i * ENTRY_SIZE + 1, (i + 1) * ENTRY_SIZE)
                     = RecordOf(At(es, i))
           /\ \A i \in Indices(es) \ {0} :
                 LET e == At(es, i)
                     from == strtab + e.info.filename_offset
                     name == as_bytes(e.info.name)
                 IN  SubSeq(bytes, from + 1, from + Len(name) + 1)
                         = name \o <<0>>

(***************************************************************************)
(* C24: in every FST that FST::new returns and every FST that the rebuild  *)
(* constructs, entries[i].info.index = i for every i, entries[0] is a      *)
(* Directory, and entries[0].next_index = entries.len().                   *)
(***************************************************************************)
RootSpansTable ==
    phase \in {"built", "decoded"}
    => /\ Len(fst.entries) >= 1
       /\ \A i \in Indices(fst.entries) : At(fst.entries, i).info.index = i
       /\ is_dir(At(fst.entries, 0))
       /\ At(fst.entries, 0).next_index = Len(fst.entries)

(***************************************************************************)
(* C25: in the FST the rebuild constructs, for every Directory at index d  *)
(* (the root included), next_index = d + 1 + the number of entries created *)
(* for its host subtree, the entries at d+1 .. next_index-1 are exactly    *)
(* the entries whose host path lies below the directory's, and file_count  *)
(* is the number of entries created for its immediate host children.       *)
(***************************************************************************)
IsPrefix(s, t) == Len(s) <= Len(t) /\ SubSeq(t, 1, Len(s)) = s

\* the entries whose host path lies strictly below that of entry d
HostDescendants(es, d) ==
    {i \in Indices(es) :
        LET p == Components(At(es, d).info.full_path)
            q == Components(At(es, i).info.full_path)
        IN  Len(p) < Len(q) /\ IsPrefix(p, q)}

\* the entries whose host path is that of entry d plus one component
HostChildren(es, d) ==
    {i \in HostDescendants(es, d) :
        Len(Components(At(es, i).info.full_path))
            = Len(Components(At(es, d).info.full_path)) + 1}

DirectorySpansSubtree ==
    phase = "built"
    => \A d \in Directories(fst.entries) :
          LET dir == At(fst.entries, d) IN
          /\ dir.next_index
                = d + 1 + Cardinality(HostDescendants(fst.entries, d))
          /\ (d + 1)..(dir.next_index - 1) = HostDescendants(fst.entries, d)
          /\ dir.file_count = Cardinality(HostChildren(fst.entries, d))

\* a rebuilt tree in which a directory below the root holds an entry and is
\* followed by an entry of the root
DirectorySpansSubtreeWitness ==
    /\ phase = "built"
    /\ \E d \in Directories(fst.entries) \ {0} :
          /\ HostChildren(fst.entries, d) # {}
          /\ At(fst.entries, d).next_index < Len(fst.entries)
          /\ At(fst.entries, 0).file_count >= 2

(***************************************************************************)
(* C26: in the FST the rebuild constructs, and in the FST decoded from a   *)
(* table whose index ranges nest and whose directory records name the      *)
(* enclosing directory as parent, every entry below the root has           *)
(* directory_index p where entries[p] is the innermost Directory with      *)
(* p < index < next_index; only the root has none; and every Directory     *)
(* below the root has parent_index = directory_index.                      *)
(***************************************************************************)
Enclosing(es, e) ==
    {q \in Directories(es) : q < e /\ e < At(es, q).next_index}

\* the parent fields of the directory records of a nested table
ParentFieldsNest(es) ==
    \A d \in Directories(es) \ {0} :
        /\ Enclosing(es, d) # {}
        /\ \A q \in Enclosing(es, d) : q <= At(es, d).parent_index
        /\ At(es, d).parent_index \in Enclosing(es, d)

DirectoryIndexIsInnermost ==
    (\/ phase = "built"
     \/ /\ phase = "decoded"
        /\ WellFormed(fst.entries)
        /\ ParentFieldsNest(fst.entries))
    => LET es == fst.entries IN
       /\ At(es, 0).info.directory_index = NoneIdx
       /\ \A e \in Indices(es) \ {0} :
             LET p == At(es, e).info.directory_index IN
             /\ p \in Enclosing(es, e)
             /\ \A q \in Enclosing(es, e) : q <= p
             /\ is_dir(At(es, e)) => At(es, e).parent_index = p

\* a rebuilt tree in which an entry of the root was created after the walk
\* returned from a subdirectory that holds an entry
DirectoryIndexWitness ==
    /\ phase = "built"
    /\ \E d \in Directories(fst.entries) \ {0} :
       \E i, j \in Indices(fst.entries) :
          /\ At(fst.entries, d).info.directory_index = 0
          /\ d < i /\ i < At(fst.entries, d).next_index
          /\ j >= At(fst.entries, d).next_index
          /\ At(fst.entries, j).info.directory_index = 0

\* a decoded nested table with a directory inside a directory and an entry
\* of the root after them
DirectoryIndexDecodedWitness ==
    /\ phase = "decoded"
    /\ WellFormed(fst.entries)
    /\ ParentFieldsNest(fst.entries)
    /\ \E d \in Directories(fst.entries) \ {0} :
          /\ At(fst.entries, d).info.directory_index # 0
          /\ \E j \in Indices(fst.entries) :
                j > d /\ At(fst.entries, j).info.directory_index = 0

(***************************************************************************)
(* C27: during the rebuild walk the entry list only grows at its end; the  *)
(* index, kind, name, filename_offset, directory_index of an entry and the *)
(* size and tentative offset of a File never change once it is pushed; a   *)
(* Directory's next_index and file_count change only in the step in which  *)
(* its walk returns (next_index leaves its initial 0 once); and the FST    *)
(* built at the end differs from the list only by one base offset added to *)
(* the file_offset of every File.                                          *)
(***************************************************************************)
EntryKept(x, y) ==
    /\ y.kind = x.kind
    /\ y.info = x.info
    /\ is_file(x) => y = x
    /\ is_dir(x) =>
          /\ y.parent_index = x.parent_index
          /\ (y.next_index # x.next_index \/ y.file_count # x.file_count)
                => x.next_index = 0 /\ y.next_index # 0

ShiftedBy(es, base) ==
    [i \in 1..Len(es) |->
        IF is_file(es[i]) THEN [es[i] EXCEPT !.file_offset = @ + base]
        ELSE es[i]]

WalkStepKeepsEntries ==
    phase = "walk"
    => /\ Len(rb_info'.entries) >= Len(rb_info.entries)
       /\ \A i \in 1..Len(rb_info.entries) :
             EntryKept(rb_info.entries[i], rb_info'.entries[i])
       /\ phase' = "built"
             => fst'.entries
                    = ShiftedBy(rb_info'.entries, placement'.file_system_offset)

EntriesAppendOnly == [][WalkStepKeepsEntries]_vars

\* a finished rebuild of a tree with a file inside a subdirectory and a file
\* after it, whose offsets were shifted by a base that is not 0
EntriesAppendOnlyWitness ==
    /\ phase = "built"
    /\ placement.file_system_offset > 0
    /\ \E d \in Directories(fst.entries) \ {0} :
       \E f, g \in Files(fst.entries) :
          /\ d < f /\ f < At(fst.entries, d).next_index
          /\ g >= At(fst.entries, d).next_index
          /\ At(fst.entries, g).file_offset
                = At(rb_info.entries, g).file_offset
                      + placement.file_system_offset

(***************************************************************************)
(* C28: in the FST the rebuild constructs with alignment a, FST.offset is  *)
(* the least multiple of a >= APPLOADER_OFFSET + apploader_size,           *)
(* dol_offset the least multiple >= FST.offset + table size, the base B    *)
(* the least multiple >= dol_offset + dol_size, and every File's           *)
(* file_offset is B plus the sum, over the File entries before it in index *)
(* order, of the least multiple of a >= their size.                        *)
(***************************************************************************)
LeastMultiple(n, a) ==
    CHOOSE m \in n..(n + a - 1) : m % a = 0

AlignedSizesBefore(es, f, a) ==
    SumSeq([k \in 1..f |->
               IF is_file(es[k]) THEN LeastMultiple(es[k].size, a) ELSE 0])

FileOffsetsFromBase ==
    phase = "built"
    => LET a == rebuilder.alignment
           offset == LeastMultiple(APPLOADER_OFFSET + rebuilder.apploader_size, a)
           dol_offset == LeastMultiple(offset + fst.size, a)
           B == LeastMultiple(dol_offset + rebuilder.dol_size, a)
       IN  /\ fst.offset = offset
           /\ placement.dol_offset = dol_offset
           /\ \A f \in Files(fst.entries) :
                 At(fst.entries, f).file_offset
                     = B + AlignedSizesBefore(fst.entries, f, a)

\* a rebuilt tree with two files, the first of a size that is not a multiple
\* of the alignment, and an apploader that does not end on one
FileOffsetsFromBaseWitness ==
    /\ phase = "built"
    /\ (APPLOADER_OFFSET + rebuilder.apploader_size) % rebuilder.alignment # 0
    /\ \E f, g \in Files(fst.entries) :
          /\ f < g
          /\ At(fst.entries, f).size % rebuilder.alignment # 0
          /\ At(fst.entries, g).file_offset > At(fst.entries, f).file_offset

(***************************************************************************)
(* C29: for every Directory d of every FST that FST::new returns, whatever *)
(* next_index values its records carried, the iteration of                 *)
(* iter_contents(d) ends after finitely many steps, without an access      *)
(* outside the table and without an underflow.                             *)
(***************************************************************************)
IterationTerminates ==
    (call.op = "iter_contents" /\ phase = "decoded")
    => \A d \in DOMAIN call.result : call.result[d].status = "ok"

(***************************************************************************)
(* C30: a full rebuild whose system files are present reaches              *)
(* ROMRebuilder::write, and there the write cursor is at or below the      *)
(* offset of every non-empty placed file when the file is reached, so that *)
(* offset - bytes_written never underflows and the file's contents start   *)
(* at its offset.                                                          *)
(***************************************************************************)
FullRebuildCursorBelowOffset ==
    (/\ cli.cmd = "rebuild"
     /\ cli.rebuild_systemdata
     /\ rom.status \notin {"none", "io_error"})
    => /\ rom.status # "panic"
       /\ (/\ rom.status = "writing"
           /\ rom.i <= Len(rom.files)
           /\ rom.files[rom.i].size > 0)
             => rom.bytes_written <= rom.files[rom.i].offset

====
